---- MODULE Spec2Model ----
(***************************************************************************)
(* Finance committee platform: the entity store (events, sponsors,         *)
(* sponsorships, member accounts, settings), the FinanceCalculator         *)
(* aggregation functions of backend/utils/finance.py, the ReportGenerator  *)
(* of backend/utils/reports.py, the routes of backend/routes and the       *)
(* decorators of backend/utils/auth_middleware.py.                         *)
(*                                                                         *)
(* Numbers.  Money amounts are Python floats holding whole numbers; they   *)
(* are integers here.  A quotient is an exact fraction [n, d] in lowest    *)
(* terms with d > 0, so binary rounding error of the float quotient is     *)
(* abstracted away; round(x, 2) and int(x) are computed on the exact       *)
(* value.  A division by zero yields the value ZeroDivisionError, which    *)
(* every later operation propagates.                                       *)
(***************************************************************************)
EXTENDS Integers, Sequences, FiniteSets, TLC

VARIABLES
    events,            \* rows of table "events"
    next_event_id,     \* the table's auto-increment counter
    sponsors,          \* rows of table "sponsors"
    next_sponsor_id,   \* that table's auto-increment counter
    sponsorships,      \* rows of table "sponsorships"
    next_sponsorship_id, \* that table's auto-increment counter
    members,           \* rows of table "fc_members"
    next_member_id,    \* that table's auto-increment counter
    app_settings,      \* the in-memory dict of routes/settings.py
    requests,          \* rate_limit._requests: client id -> admitted times
    clock,             \* int(time.time())
    served,            \* how often a rate-limited handler ran, per
                       \* [handler, client, time]
    inflight,          \* requests being served concurrently, with their locals
    resp               \* the value returned by the last call

vars == <<events, next_event_id, sponsors, next_sponsor_id, sponsorships,
          next_sponsorship_id, members, next_member_id, app_settings,
          requests, clock, served, inflight, resp>>
store == <<events, next_event_id, sponsors, next_sponsor_id, sponsorships,
           next_sponsorship_id, members, next_member_id, app_settings>>
transient == <<requests, clock, served, inflight>>
beside == <<next_sponsor_id, members, next_member_id, app_settings, transient>>

----------------------------------------------------------------------------
(* Bounds of the model *)

CalcRange == 4         \* calculator arguments range over -CalcRange..CalcRange
MaxEvents == 2         \* rows of the events table in Spec
MaxTrendEvents == 3    \* rows of the events table in SpecTrends
MaxProjected == 2      \* projected_months ranges over 0..MaxProjected
MaxSponsorships == 3   \* rows of the sponsorships table in SpecRank
MaxLimit == 2          \* limit ranges over 0..MaxLimit
MaxRouteSponsorships == 2  \* sponsorships ever created in SpecSponsorships
MaxRankedSponsorships == 3 \* sponsorships ever created in SpecRoutedRanking

----------------------------------------------------------------------------
(* Nullable columns and Python truthiness *)

None == <<>>
Some(v) == <<v>>

\* `x or 0` on a nullable number: None and 0 are both falsy
OrZero(x) == IF x = None THEN 0 ELSE x[1]

----------------------------------------------------------------------------
(* Exact arithmetic for float expressions *)

Abs(i) == IF i < 0 THEN -i ELSE i

RECURSIVE GCD(_, _)
GCD(a, b) == IF b = 0 THEN a ELSE GCD(b, a % b)

ZeroDivisionError == [n |-> 0, d |-> 0]

IsNum(x) == x.d > 0

Norm(n, d) ==
    LET g == GCD(Abs(n), Abs(d))
        s == IF d < 0 THEN -1 ELSE 1
    IN  [n |-> s * (n \div g), d |-> s * (d \div g)]

R(i) == [n |-> i, d |-> 1]

RAdd(a, b) ==
    IF ~IsNum(a) \/ ~IsNum(b) THEN ZeroDivisionError
    ELSE LET g == GCD(a.d, b.d)
         IN  Norm(a.n * (b.d \div g) + b.n * (a.d \div g), (a.d \div g) * b.d)

RSub(a, b) == RAdd(a, [n |-> -b.n, d |-> b.d])

\* cross-cancelling keeps the intermediate products small
RMul(a, b) ==
    IF ~IsNum(a) \/ ~IsNum(b) THEN ZeroDivisionError
    ELSE LET g1 == GCD(Abs(a.n), b.d)
             g2 == GCD(Abs(b.n), a.d)
             h1 == IF g1 = 0 THEN 1 ELSE g1
             h2 == IF g2 = 0 THEN 1 ELSE g2
         IN  Norm((a.n \div h1) * (b.n \div h2), (a.d \div h2) * (b.d \div h1))

RDiv(a, b) ==
    IF ~IsNum(a) \/ ~IsNum(b) \/ b.n = 0 THEN ZeroDivisionError
    ELSE RMul(a, Norm(b.d, b.n))

\* round(x, 2): to the nearest hundredth, a tie going to the even hundredth
Round2(x) ==
    IF ~IsNum(x) THEN x
    ELSE LET s   == x.n * 100
             q   == s \div x.d
             rem == s - q * x.d
             r   == IF 2 * rem > x.d THEN q + 1
                    ELSE IF 2 * rem = x.d THEN q + (q % 2)
                    ELSE q
         IN  Norm(r, 100)

\* int(x): truncation toward zero
IntOf(x) == IF x.n >= 0 THEN x.n \div x.d ELSE -((-x.n) \div x.d)

----------------------------------------------------------------------------
(* FinanceCalculator: the calculators *)

calculate_roi_zero_guard(investment, revenue) ==
    IF investment = 0 THEN R(0)
    ELSE RMul(RDiv(RSub(R(revenue), R(investment)), R(investment)), R(100))

calculate_roi(investment, revenue) ==
    IF investment <= 0 THEN R(0)
    ELSE RMul(RDiv(RSub(R(revenue), R(investment)), R(investment)), R(100))

calculate_profit_margin_over_costs(revenue, costs) ==
    IF costs <= 0 THEN R(0)
    ELSE RMul(RDiv(RSub(R(revenue), R(costs)), R(costs)), R(100))

calculate_profit_margin(revenue, costs) ==
    IF revenue <= 0 THEN R(0)
    ELSE RMul(RDiv(RSub(R(revenue), R(costs)), R(revenue)), R(100))

calculate_budget_utilization(actual, planned) ==
    IF planned <= 0 THEN R(0)
    ELSE RMul(RDiv(R(actual), R(planned)), R(100))

----------------------------------------------------------------------------
(* Calls of the calculators, arguments drawn from CalcArgs *)

CalcArgs == (-CalcRange)..CalcRange

NoCall == [op |-> "none"]

\* settings.py, the module-level dict.  A JSON value is a record of its
\* Python type t ("bool", "int", "str", "null") and its value, held in the
\* field of that type: b, n or s.
InitialSettings ==
    [allow_registration |-> [t |-> "bool", b |-> TRUE, n |-> 0, s |-> ""],
     default_role |-> [t |-> "str", b |-> FALSE, n |-> 0, s |-> "finance"],
     session_timeout |-> [t |-> "int", b |-> FALSE, n |-> 60, s |-> ""],
     maintenance_mode |-> [t |-> "bool", b |-> FALSE, n |-> 0, s |-> ""],
     max_login_attempts |-> [t |-> "int", b |-> FALSE, n |-> 5, s |-> ""],
     lockout_duration |-> [t |-> "int", b |-> FALSE, n |-> 900, s |-> ""],
     require_email_verification |-> [t |-> "bool", b |-> FALSE, n |-> 0, s |-> ""],
     allow_password_reset |-> [t |-> "bool", b |-> TRUE, n |-> 0, s |-> ""],
     api_rate_limit |-> [t |-> "int", b |-> FALSE, n |-> 100, s |-> ""],
     api_rate_window |-> [t |-> "int", b |-> FALSE, n |-> 3600, s |-> ""]]

\* What a freshly started process holds besides the entity tables: no
\* member rows, the settings dict as written in the module, no rate-limit
\* attribute yet and no request in progress.
Elsewhere ==
    /\ next_sponsor_id = Cardinality(sponsors) + 1
    /\ members = {}
    /\ next_member_id = 1
    /\ app_settings = InitialSettings
    /\ requests = <<>>
    /\ clock = 0
    /\ served = <<>>
    /\ inflight = <<>>

EmptyStore ==
    /\ events = {}
    /\ next_event_id = 1
    /\ sponsors = {}
    /\ sponsorships = {}
    /\ next_sponsorship_id = 1
    /\ Elsewhere

CallCalculateRoi ==
    \E investment \in CalcArgs, revenue \in CalcArgs :
        /\ resp' = [op |-> "calculate_roi", investment |-> investment,
                    revenue |-> revenue,
                    result |-> calculate_roi(investment, revenue)]
        /\ UNCHANGED <<store, transient>>

CallCalculateProfitMargin ==
    \E revenue \in CalcArgs, costs \in CalcArgs :
        /\ resp' = [op |-> "calculate_profit_margin", revenue |-> revenue,
                    costs |-> costs,
                    result |-> calculate_profit_margin(revenue, costs)]
        /\ UNCHANGED <<store, transient>>

CallCalculateBudgetUtilization ==
    \E actual \in CalcArgs, planned \in CalcArgs :
        /\ resp' = [op |-> "calculate_budget_utilization", actual |-> actual,
                    planned |-> planned,
                    result |-> calculate_budget_utilization(actual, planned)]
        /\ UNCHANGED <<store, transient>>

InitCalc == EmptyStore /\ resp = NoCall

NextCalc ==
    \/ CallCalculateRoi
    \/ CallCalculateProfitMargin
    \/ CallCalculateBudgetUtilization

SpecCalc == InitCalc /\ [][NextCalc]_vars

----------------------------------------------------------------------------
(* Dates.  A date is [y, m, d]; the years used are 2025..2027, none a leap *)
(* year.  An event row is [id, date, budget, revenue, footfall], every     *)
(* column but id nullable (models.py); the name column plays no part in    *)
(* any computation and is left out of the row.                             *)

DaysBeforeMonth == <<0, 31, 59, 90, 120, 151, 181, 212, 243, 273, 304, 334>>

\* days since 2024-12-31
Ordinal(dt) == (dt.y - 2025) * 365 + DaysBeforeMonth[dt.m] + dt.d

\* the character code of decimal digit k
Digit(k) == 48 + k

\* strftime('%Y-%m') as the string's character codes; 45 is '-'
MonthKeyMonthFirst(dt) ==
    << Digit(dt.m \div 10), Digit(dt.m % 10), 45,
       Digit(dt.y \div 1000), Digit((dt.y \div 100) % 10),
       Digit((dt.y \div 10) % 10), Digit(dt.y % 10) >>

MonthKey(dt) ==
    << Digit(dt.y \div 1000), Digit((dt.y \div 100) % 10),
       Digit((dt.y \div 10) % 10), Digit(dt.y % 10), 45,
       Digit(dt.m \div 10), Digit(dt.m % 10) >>

\* Python's str comparison a < b
StrLess(a, b) ==
    \/ \E i \in 1..Len(a) :
          /\ i <= Len(b)
          /\ a[i] < b[i]
          /\ \A j \in 1..(i - 1) : a[j] = b[j]
    \/ /\ Len(a) < Len(b)
       /\ \A j \in 1..Len(a) : a[j] = b[j]

\* Event.date >= start_date and Event.date <= end_date, with end_date =
\* now and start_date = now - timedelta(days = months * 30).  Both bounds
\* carry now's time of day and a DATE column compares as midnight, so the
\* start day itself is outside and today is inside; a NULL date fails both.
InWindow(date, now, months) ==
    /\ date # None
    /\ Ordinal(now) - months * 30 < Ordinal(date[1])
    /\ Ordinal(date[1]) <= Ordinal(now)

----------------------------------------------------------------------------
(* Sums over rows *)

RECURSIVE SumFn(_)
\* sum(f[x] for x in DOMAIN f)
SumFn(f) ==
    IF DOMAIN f = {} THEN 0
    ELSE LET x == CHOOSE y \in DOMAIN f : TRUE
         IN  f[x] + SumFn([z \in DOMAIN f \ {x} |-> f[z]])

\* Sponsorship rows of an event with status 'completed'
CompletedOfEvent(event_id) ==
    {s \in sponsorships : s.event_id = Some(event_id) /\ s.status = "completed"}

----------------------------------------------------------------------------
(* Grouping sponsorships by sponsor: the SQL query                         *)
(*   SELECT sponsor, SUM(amount), COUNT(id), AVG(roi)                      *)
(*   FROM sponsors JOIN sponsorships ON sponsors.id = sponsor_id           *)
(*   GROUP BY sponsors.id ORDER BY SUM(amount) DESC LIMIT k                *)
(* SUM and AVG skip NULLs and are NULL when every value is NULL; a NULL    *)
(* sum sorts last under DESC; rows with equal sums come in either order.   *)

\* SUM(column) over rows, the column given as a function row -> nullable
SqlSum(f) ==
    LET present == {x \in DOMAIN f : f[x] # None}
    IN  IF present = {} THEN None
        ELSE Some(SumFn([x \in present |-> f[x][1]]))

\* AVG(column)
SqlAvg(f) ==
    LET present == {x \in DOMAIN f : f[x] # None}
    IN  IF present = {} THEN None
        ELSE Some(RDiv(R(SumFn([x \in present |-> f[x][1]])),
                       R(Cardinality(present))))

\* one row per sponsor that has a sponsorship among `rows`
SponsorGroups(rows) ==
    { LET mine == {s \in rows : s.sponsor_id = Some(sp.id)}
      IN  [sponsor |-> sp,
           total_investment |-> SqlSum([s \in mine |-> s.amount]),
           sponsorship_count |-> Cardinality(mine),
           avg_roi |-> SqlAvg([s \in mine |-> s.roi])]
      : sp \in {x \in sponsors : \E s \in rows : s.sponsor_id = Some(x.id)} }

\* a before b is allowed by ORDER BY total DESC
DescOk(a, b) ==
    \/ b.total_investment = None
    \/ /\ a.total_investment # None
       /\ a.total_investment[1] >= b.total_investment[1]

\* every ordering of G that ORDER BY total DESC may return
DescOrders(G) ==
    {q \in [1..Cardinality(G) -> G] :
        /\ \A i, j \in 1..Cardinality(G) : i # j => q[i] # q[j]
        /\ \A i, j \in 1..Cardinality(G) : i < j => DescOk(q[i], q[j])}

\* LIMIT k of an ordered result
Limit(q, k) == SubSeq(q, 1, IF k < Len(q) THEN k ELSE Len(q))

----------------------------------------------------------------------------
(* routes/events.py: add_event                                             *)

\* a role check that lets every caller through
AnyRole == {"admin", "finance", "viewer"}

AllowedRoles == {"admin", "finance"}
CallerRoles == {"admin", "finance", "viewer"}

\* validate_positive_number on a request field (None: missing or not a number)
validate_positive_number(value) == value # None /\ value[1] >= 0

\* The request body: name_ok says whether a non-blank name is present; date
\* is None when missing or not YYYY-MM-DD; budget is None when missing or
\* not numeric; revenue and footfall are None when the key is absent, which
\* data.get(key, 0) turns into 0.
add_event(role, name_ok, date, budget, revenue, footfall, cap) ==
    /\ Cardinality(events) < cap
    /\ IF role \notin AllowedRoles THEN
            /\ resp' = [op |-> "add_event", role |-> role, status |-> 403]
            /\ UNCHANGED <<store, transient>>
       ELSE IF ~name_ok \/ date = None \/ ~validate_positive_number(budget) THEN
            /\ resp' = [op |-> "add_event", role |-> role, status |-> 400]
            /\ UNCHANGED <<store, transient>>
       ELSE
            /\ events' = events \cup
                  {[id |-> next_event_id, date |-> date, budget |-> budget,
                    revenue |-> Some(OrZero(revenue)),
                    footfall |-> Some(OrZero(footfall))]}
            /\ next_event_id' = next_event_id + 1
            /\ resp' = [op |-> "add_event", role |-> role, status |-> 201]
            /\ UNCHANGED <<sponsors, sponsorships, next_sponsorship_id, beside>>

----------------------------------------------------------------------------
(* routes/analytics.py: overview, dashboard, roi                           *)

\* ((total_revenue - total_budget) / total_budget * 100) if total_budget > 0 else 0
TotalsRoi(total_revenue, total_budget) ==
    IF total_budget > 0
    THEN RMul(RDiv(R(total_revenue - total_budget), R(total_budget)), R(100))
    ELSE R(0)

TotalBudget == SumFn([e \in events |-> OrZero(e.budget)])
TotalRevenue == SumFn([e \in events |-> OrZero(e.revenue)])
TotalInvestment == SumFn([s \in sponsorships |-> OrZero(s.amount)])
TotalFootfall == SumFn([e \in events |-> OrZero(e.footfall)])

\* profit with a floor at zero
ProfitFloored(total_revenue, total_budget) ==
    IF total_revenue < total_budget THEN 0 ELSE total_revenue - total_budget

Profit(total_revenue, total_budget) == total_revenue - total_budget

RoundRoi(x) == Round2(x)

\* FCMember.query.filter_by(is_active=True)
ActiveUsers == {u \in members : u.is_active}

OverviewBody ==
    [total_events |-> Cardinality(events),
     total_users |-> Cardinality(ActiveUsers),
     total_budget |-> TotalBudget,
     total_revenue |-> TotalRevenue,
     total_sponsor_investment |-> TotalInvestment,
     total_sponsors |-> Cardinality(sponsors),
     total_footfall |-> TotalFootfall,
     profit |-> Profit(TotalRevenue, TotalBudget),
     roi_percentage |-> RoundRoi(TotalsRoi(TotalRevenue, TotalBudget))]

\* fault: a store query raises; overview has no handler, so Flask answers 500
overview(role, fault) ==
    /\ resp' = IF role \notin AllowedRoles THEN [op |-> "overview", status |-> 403]
               ELSE IF fault THEN [op |-> "overview", status |-> 500]
               ELSE [op |-> "overview", status |-> 200, body |-> OverviewBody]
    /\ UNCHANGED <<store, transient>>

\* x / n if n > 0 else 0
PerOrZero(x, n) == IF n > 0 THEN RDiv(R(x), R(n)) ELSE R(0)

\* recent_activity and generated_at read the clock and are left out
DashboardBody ==
    [overview |->
        [total_events |-> Cardinality(events),
         total_sponsors |-> Cardinality(sponsors),
         total_sponsorships |-> Cardinality(sponsorships),
         total_users |-> Cardinality(ActiveUsers)],
     financial |->
        [total_budget |-> TotalBudget,
         total_revenue |-> TotalRevenue,
         total_investment |-> TotalInvestment,
         total_profit |-> Profit(TotalRevenue, TotalBudget),
         total_footfall |-> TotalFootfall,
         roi_percentage |-> RoundRoi(TotalsRoi(TotalRevenue, TotalBudget))],
     metrics |->
        [avg_event_size |-> Round2(PerOrZero(TotalFootfall, Cardinality(events))),
         sponsorship_per_event |->
            Round2(PerOrZero(Cardinality(sponsorships), Cardinality(events))),
         avg_sponsorship_value |->
            PerOrZero(TotalInvestment, Cardinality(sponsorships))]]

dashboard(role, fault) ==
    /\ resp' = IF role \notin AllowedRoles THEN [op |-> "dashboard", status |-> 403]
               ELSE IF fault THEN [op |-> "dashboard", status |-> 500]
               ELSE [op |-> "dashboard", status |-> 200, body |-> DashboardBody]
    /\ UNCHANGED <<store, transient>>

\* float(x) if x else 0
FloatOrZero(x) == OrZero(x)

\* ((float(revenue or 0) - float(budget or 0)) / float(budget or 1)) * 100
EventRoi(budget, revenue) ==
    RMul(RDiv(R(OrZero(revenue) - OrZero(budget)),
              R(IF OrZero(budget) = 0 THEN 1 ELSE budget[1])),
         R(100))

\* one entry per event; ORDER BY date DESC LIMIT 20 keeps every event of a
\* table of at most 20 rows, and the entries are held as a set
EventsRoi ==
    { [event_id |-> e.id,
       budget |-> FloatOrZero(e.budget),
       revenue |-> FloatOrZero(e.revenue),
       sponsorship_amount |->
          FloatOrZero(SqlSum([s \in {x \in sponsorships : x.event_id = Some(e.id)}
                                |-> s.amount])),
       roi_percentage |-> Round2(EventRoi(e.budget, e.revenue))]
      : e \in events }

SponsorRoiEntry(g) ==
    [sponsor_id |-> g.sponsor.id,
     industry |-> g.sponsor.industry,
     total_investment |-> FloatOrZero(g.total_investment),
     average_roi |-> IF g.avg_roi = None THEN R(0) ELSE g.avg_roi[1],
     sponsorship_count |-> g.sponsorship_count]

roi(role, fault) ==
    \E q \in DescOrders(SponsorGroups(sponsorships)) :
        /\ resp' =
              IF role \notin AllowedRoles THEN [op |-> "roi", status |-> 403]
              ELSE IF fault THEN [op |-> "roi", status |-> 500]
              ELSE [op |-> "roi", status |-> 200,
                    body |->
                       [sponsors_roi |->
                           [i \in 1..Len(Limit(q, 20)) |-> SponsorRoiEntry(q[i])],
                        events_roi |-> EventsRoi,
                        summary |->
                           [total_sponsors_analyzed |-> Len(Limit(q, 20)),
                            total_events_analyzed |-> Cardinality(events)]]]
        /\ UNCHANGED <<store, transient>>

\* routes/analytics.py trends: the events of the last 365 days grouped by
\* year and month.  start_date and end_date are datetimes, Event.date is a
\* date: an event dated on the day of start_date compares below it.  The
\* groups come ordered by year and month and are held as a set; the period
\* strings read the clock and are left out.
TrendsBody(now) ==
    LET W == {e \in events :
                 /\ e.date # None
                 /\ Ordinal(now) - 365 < Ordinal(e.date[1])
                 /\ Ordinal(e.date[1]) <= Ordinal(now)}
        of(key) == {e \in W : MonthKey(e.date[1]) = key}
        budget(key) == SqlSum([e \in of(key) |-> e.budget])
        revenue(key) == SqlSum([e \in of(key) |-> e.revenue])
    IN  {[month |-> key,
          budget |-> FloatOrZero(budget(key)),
          revenue |-> FloatOrZero(revenue(key)),
          footfall |-> OrZero(SqlSum([e \in of(key) |-> e.footfall])),
          event_count |-> Cardinality(of(key)),
          profit |-> OrZero(revenue(key)) - OrZero(budget(key))]
         : key \in {MonthKey(e.date[1]) : e \in W}}

trends(role, now, fault) ==
    /\ resp' = IF role \notin AllowedRoles THEN [op |-> "trends", status |-> 403]
               ELSE IF fault THEN [op |-> "trends", status |-> 500]
               ELSE [op |-> "trends", status |-> 200, body |-> TrendsBody(now)]
    /\ UNCHANGED <<store, transient>>

----------------------------------------------------------------------------
(* FinanceCalculator.analyze_financial_trends                              *)

Front(q) == SubSeq(q, 1, Len(q) - 1)
Last(q) == q[Len(q)]

\* Event.query.filter(date in window)
EventsInWindow(now, months) == {e \in events : InWindow(e.date, now, months)}

\* .order_by(Event.date).all(): every ordering by ascending date, events of
\* the same date in either order
DateOrders(W) ==
    {q \in [1..Cardinality(W) -> W] :
        /\ \A i, j \in 1..Cardinality(W) : i # j => q[i] # q[j]
        /\ \A i, j \in 1..Cardinality(W) :
              i < j => Ordinal(q[i].date[1]) <= Ordinal(q[j].date[1])}

\* float(event.budget), float(event.revenue) or sum(s.amount ...) raises
\* TypeError on None
RaisesTypeError(W) ==
    \E e \in W :
        \/ e.budget = None
        \/ e.revenue = None
        \/ \E s \in CompletedOfEvent(e.id) : s.amount = None

RECURSIVE MonthlyData(_)
\* the loop over events filling the dict monthly_data, whose values are
\* kept in the order their keys were first inserted
MonthlyData(evs) ==
    IF evs = <<>> THEN <<>>
    ELSE LET acc   == MonthlyData(Front(evs))
             e     == Last(evs)
             key   == MonthKey(e.date[1])
             idx   == {i \in 1..Len(acc) : acc[i].month = key}
             spons == SumFn([s \in CompletedOfEvent(e.id) |-> s.amount[1]])
         IN  IF idx = {}
             THEN Append(acc, [month |-> key,
                               total_budget |-> e.budget[1],
                               total_revenue |-> e.revenue[1],
                               event_count |-> 1,
                               total_sponsorship |-> spons])
             ELSE LET i == CHOOSE k \in idx : TRUE
                  IN  [acc EXCEPT ![i] =
                         [@ EXCEPT !.total_budget = @ + e.budget[1],
                                   !.total_revenue = @ + e.revenue[1],
                                   !.event_count = @ + 1,
                                   !.total_sponsorship = @ + spons]]

\* insert g behind every element whose month is not greater (a stable sort)
InsertByMonth(g, q) ==
    LET n == Cardinality({i \in 1..Len(q) : ~StrLess(g.month, q[i].month)})
    IN  SubSeq(q, 1, n) \o <<g>> \o SubSeq(q, n + 1, Len(q))

RECURSIVE SortByMonth(_)
\* trend_data.sort(key=lambda x: x['month'])
SortByMonth(q) ==
    IF q = <<>> THEN <<>> ELSE InsertByMonth(Last(q), SortByMonth(Front(q)))

\* ((curr - prev) / prev) * 100 if prev > 0 else 0
Growth(curr, prev) ==
    IF prev > 0 THEN RMul(RDiv(R(curr - prev), R(prev)), R(100)) ELSE R(0)

\* the growth loop against the first group in place of the preceding one
WithGrowthAgainstFirst(t) ==
    [i \in 1..Len(t) |->
        IF i = 1 THEN t[i]
        ELSE t[i] @@
             [revenue_growth |-> Growth(t[i].total_revenue, t[1].total_revenue),
              event_growth |-> Growth(t[i].event_count, t[1].event_count)]]

\* for i in range(1, len(trend_data)): set the two growth keys of group i
WithGrowth(t) ==
    [i \in 1..Len(t) |->
        IF i = 1 THEN t[i]
        ELSE t[i] @@
             [revenue_growth |-> Growth(t[i].total_revenue, t[i - 1].total_revenue),
              event_growth |-> Growth(t[i].event_count, t[i - 1].event_count)]]

ErrNoEvents == [error |-> "No events found in the specified period"]
ErrTrends == [error |-> "Failed to analyze financial trends"]

IsError(doc) == "error" \in DOMAIN doc

\* the body of analyze_financial_trends once the query returned `order`
TrendsDoc(order, months) ==
    LET W == {order[i] : i \in 1..Len(order)}
    IN  IF W = {} THEN ErrNoEvents
        ELSE IF RaisesTypeError(W) THEN ErrTrends
        ELSE [period_months |-> months,
              monthly_trends |-> WithGrowth(SortByMonth(MonthlyData(order))),
              total_events |-> Len(order),
              total_budget |-> SumFn([e \in W |-> e.budget[1]]),
              total_revenue |-> SumFn([e \in W |-> e.revenue[1]])]

\* every document analyze_financial_trends(months) may return at time now;
\* fault: a store query raises, which the except clause turns into ErrTrends
TrendsResults(months, now, fault) ==
    IF fault THEN {ErrTrends}
    ELSE {TrendsDoc(order, months) : order \in DateOrders(EventsInWindow(now, months))}

analyze_financial_trends(months, now, fault) ==
    \E doc \in TrendsResults(months, now, fault) :
        /\ resp' = [op |-> "analyze_financial_trends", months |-> months,
                    now |-> now, fault |-> fault, result |-> doc]
        /\ UNCHANGED <<store, transient>>

----------------------------------------------------------------------------
(* FinanceCalculator.generate_financial_projections                        *)

ErrInsufficient == [error |-> "Insufficient historical data for projections"]

\* m.get(key, 0) on a monthly group
GetOrZero(m, key) == IF key \in DOMAIN m THEN m[key] ELSE R(0)

RECURSIVE RSumSeq(_)
\* sum(rates)
RSumSeq(q) == IF q = <<>> THEN R(0) ELSE RAdd(RSumSeq(Front(q)), Last(q))

\* the last historical rate in place of the average
LastRate(rates) == IF rates = <<>> THEN R(0) ELSE Last(rates)

\* sum(rates) / len(rates) if rates else 0
AverageRate(rates) ==
    IF rates = <<>> THEN R(0) ELSE RDiv(RSumSeq(rates), R(Len(rates)))

\* [m.get(key, 0) for m in monthly_data[1:]]
RatesOf(md, key) == [i \in 1..(Len(md) - 1) |-> GetOrZero(md[i + 1], key)]

\* 1 + rate / 100
Factor(rate) == RAdd(R(1), RDiv(rate, R(100)))

RECURSIVE ProjectedRevenue(_, _, _)
\* current_revenue after `month` passes of the loop
ProjectedRevenue(base, rate, month) ==
    IF month = 0 THEN R(base)
    ELSE RMul(ProjectedRevenue(base, rate, month - 1), Factor(rate))

RECURSIVE ProjectedEvents(_, _, _)
\* current_events after `month` passes of the loop
ProjectedEvents(base, rate, month) ==
    IF month = 0 THEN base
    ELSE IntOf(RMul(R(ProjectedEvents(base, rate, month - 1)), Factor(rate)))

\* the guard with 1 in place of 2
TooFewMonthsBelowOne(monthly_data) == Len(monthly_data) < 1

\* len(monthly_data) < 2
TooFewMonths(monthly_data) == Len(monthly_data) < 2

\* the body of generate_financial_projections once analyze_financial_trends
\* (months = 6) returned `hist`
ProjectionsDoc(hist, projected_months) ==
    IF IsError(hist) THEN hist
    ELSE IF TooFewMonths(hist.monthly_trends) THEN ErrInsufficient
    ELSE LET md       == hist.monthly_trends
             avg_rev  == AverageRate(RatesOf(md, "revenue_growth"))
             avg_evt  == AverageRate(RatesOf(md, "event_growth"))
             baseline == Last(md)
             proj     == [month \in 1..projected_months |->
                            [month |-> month,
                             projected_revenue |->
                                ProjectedRevenue(baseline.total_revenue, avg_rev, month),
                             projected_events |->
                                ProjectedEvents(baseline.event_count, avg_evt, month),
                             growth_assumption |-> avg_rev]]
         IN  [projection_months |-> projected_months,
              baseline_month |-> baseline.month,
              avg_revenue_growth_rate |-> avg_rev,
              avg_event_growth_rate |-> avg_evt,
              projections |-> proj,
              total_projected_revenue |->
                 RSumSeq([i \in 1..Len(proj) |-> proj[i].projected_revenue]),
              total_projected_events |->
                 SumFn([i \in 1..Len(proj) |-> proj[i].projected_events])]

generate_financial_projections(projected_months, now, fault) ==
    \E hist \in TrendsResults(6, now, fault) :
        /\ resp' = [op |-> "generate_financial_projections",
                    projected_months |-> projected_months,
                    now |-> now, fault |-> fault,
                    result |-> ProjectionsDoc(hist, projected_months)]
        /\ UNCHANGED <<store, transient>>

----------------------------------------------------------------------------
(* FinanceCalculator.get_top_performing_sponsors                           *)

ErrTopSponsors == [error |-> "Failed to get top sponsors"]

TopSponsorEntry(g) ==
    [id |-> g.sponsor.id,
     industry |-> g.sponsor.industry,
     total_investment |-> g.total_investment[1],
     sponsorship_count |-> g.sponsorship_count,
     average_roi |-> IF g.avg_roi = None THEN R(0) ELSE g.avg_roi[1]]

\* the loop over the rows the query returned: float(total_investment)
\* raises TypeError on a NULL sum, and the except clause returns a list
\* holding one error document
TopSponsorsList(rows) ==
    IF \E i \in 1..Len(rows) : rows[i].total_investment = None
    THEN <<ErrTopSponsors>>
    ELSE [i \in 1..Len(rows) |-> TopSponsorEntry(rows[i])]

\* every list get_top_performing_sponsors(limit) may return; fault: the
\* query raises
TopSponsorsResults(limit, fault) ==
    IF fault THEN {<<ErrTopSponsors>>}
    ELSE {TopSponsorsList(Limit(q, limit)) :
             q \in DescOrders(SponsorGroups(
                      {s \in sponsorships : s.status = "completed"}))}

get_top_performing_sponsors(limit, fault) ==
    \E list \in TopSponsorsResults(limit, fault) :
        /\ resp' = [op |-> "get_top_performing_sponsors", limit |-> limit,
                    fault |-> fault, result |-> list]
        /\ UNCHANGED <<store, transient>>

----------------------------------------------------------------------------
(* Spec: the events table filled through add_event, read by the analytics  *)
(* routes and by analyze_financial_trends.                                 *)
(*                                                                         *)
(* The table may hold a row written before add_event validated its input:  *)
(* the earlier add_event (.history/backend/routes/events_20260201003728.py)*)
(* stored data.get("budget") and data.get("revenue") as given, NULL when   *)
(* the key was absent, and the columns are nullable.                       *)

Today == [y |-> 2026, m |-> 2, d |-> 10]
Jan20 == [y |-> 2026, m |-> 1, d |-> 20]

Budgets == {0, 1000, 2000}
Revenues == {1000, 1500, 1800}

LegacyEvents ==
    { [id |-> 1, date |-> Some(Jan20), budget |-> b, revenue |-> r,
       footfall |-> None]
      : <<b, r>> \in { <<None, Some(1500)>>, <<Some(1000), None>>,
                       <<None, None>> } }

Init ==
    /\ \/ events = {} /\ next_event_id = 1
       \/ \E row \in LegacyEvents : events = {row} /\ next_event_id = 2
    /\ sponsors = {}
    /\ sponsorships = {}
    /\ next_sponsorship_id = 1
    /\ Elsewhere
    /\ resp = NoCall

AddEvent ==
    \E role \in CallerRoles, name_ok \in BOOLEAN,
       date \in {None, Some(Jan20)},
       budget \in {None, Some(-1)} \cup {Some(b) : b \in Budgets},
       revenue \in {None} \cup {Some(r) : r \in Revenues} :
        add_event(role, name_ok, date, budget, revenue, None, MaxEvents)

Overview == \E role \in CallerRoles, fault \in BOOLEAN : overview(role, fault)

Dashboard == \E role \in CallerRoles, fault \in BOOLEAN : dashboard(role, fault)

Roi == \E role \in CallerRoles, fault \in BOOLEAN : roi(role, fault)

AnalyzeYear == \E fault \in BOOLEAN : analyze_financial_trends(12, Today, fault)

Next ==
    \/ AddEvent
    \/ Overview
    \/ Dashboard
    \/ Roi
    \/ AnalyzeYear

Spec == Init /\ [][Next]_vars

----------------------------------------------------------------------------
(* SpecTrends: events of three months, one budget and two revenues, read   *)
(* by analyze_financial_trends over 1 and 6 months and by                  *)
(* generate_financial_projections.                                         *)

Sep20 == [y |-> 2025, m |-> 9, d |-> 20]
Dec15 == [y |-> 2025, m |-> 12, d |-> 15]

TrendDates == {Sep20, Dec15, Jan20}

InitTrends ==
    /\ \/ events = {} /\ next_event_id = 1
       \/ \E row \in LegacyEvents :
             /\ row.budget = None /\ row.revenue # None
             /\ events = {row} /\ next_event_id = 2
    /\ sponsors = {}
    /\ sponsorships = {}
    /\ next_sponsorship_id = 1
    /\ Elsewhere
    /\ resp = NoCall

AddTrendEvent ==
    \E role \in {"finance", "viewer"}, date \in {Some(dt) : dt \in TrendDates},
       revenue \in {None, Some(1000)} :
        add_event(role, TRUE, date, Some(1000), revenue, None, MaxTrendEvents)

AnalyzeTrends ==
    \E months \in {1, 6}, fault \in BOOLEAN :
        analyze_financial_trends(months, Today, fault)

Project ==
    \E projected_months \in 0..MaxProjected, fault \in BOOLEAN :
        generate_financial_projections(projected_months, Today, fault)

NextTrends ==
    \/ AddTrendEvent
    \/ AnalyzeTrends
    \/ Project

SpecTrends == InitTrends /\ [][NextTrends]_vars

----------------------------------------------------------------------------
(* SpecRank: get_top_performing_sponsors over every sponsorships table of  *)
(* at most MaxSponsorships rows the schema admits: two sponsors, one       *)
(* event, amount NULL, 500 or 1000, status 'completed' or 'paid' (the      *)
(* status column is a free string and amount is nullable, models.py).      *)

RankSponsors == {[id |-> 1, industry |-> Some("Tech")],
                 [id |-> 2, industry |-> None]}

RankEvent == [id |-> 1, date |-> Some(Jan20), budget |-> Some(1000),
              revenue |-> Some(1500), footfall |-> Some(0)]

RankRows(id) ==
    {[id |-> id, sponsor_id |-> Some(sp.id), event_id |-> Some(RankEvent.id),
      amount |-> a, status |-> st, roi |-> Some(0)]
     : sp \in RankSponsors, a \in {None, Some(500), Some(1000)},
       st \in {"completed", "paid"}}

\* tables of n rows with ids 1..n
RankTables(n) ==
    {{t[i] : i \in 1..n} :
        t \in {f \in [1..n -> UNION {RankRows(i) : i \in 1..n}] :
                  \A i \in 1..n : f[i].id = i}}

InitRank ==
    /\ events = {RankEvent}
    /\ next_event_id = 2
    /\ sponsors = RankSponsors
    /\ sponsorships \in UNION {RankTables(n) : n \in 0..MaxSponsorships}
    /\ next_sponsorship_id = Cardinality(sponsorships) + 1
    /\ Elsewhere
    /\ resp = NoCall

GetTopSponsors ==
    \E limit \in 0..MaxLimit, fault \in BOOLEAN :
        get_top_performing_sponsors(limit, fault)

NextRank == GetTopSponsors

SpecRank == InitRank /\ [][NextRank]_vars

----------------------------------------------------------------------------
(* routes/sponsorships.py: add_sponsorship, update_sponsorship,            *)
(* delete_sponsorship.  A sponsorship row is [id, sponsor_id, event_id,    *)
(* amount, status, roi, created_at].  A datetime is [y, m, d, h], h the    *)
(* hour of the day.                                                        *)

\* hours since 2024-12-31 00:00
Instant(t) == Ordinal(t) * 24 + t.h

\* the vocabulary with the status the aggregations select
valid_statuses_and_completed ==
    {"negotiating", "confirmed", "paid", "cancelled", "completed"}

valid_statuses == {"negotiating", "confirmed", "paid", "cancelled"}

\* any string passes
validate_status_any(status) == TRUE

validate_status(status) == status \in valid_statuses

\* the duplicate check left out
ExistingNone(sponsor_id, event_id) == {}

\* Sponsorship.query.filter_by(sponsor_id=..., event_id=...).first()
Existing(sponsor_id, event_id) ==
    {s \in sponsorships : s.sponsor_id = Some(sponsor_id)
                          /\ s.event_id = Some(event_id)}

\* The request body: sponsor_id and event_id are None when missing or
\* falsy; has_amount says whether the key "amount" is present and amount is
\* None when its value is not a number; status is None when the key is
\* absent; new_roi is None when the key "roi" is absent.  fault: a store query raises.
\* cap bounds the rows ever created.
add_sponsorship(role, sponsor_id, event_id, has_amount, amount, status, new_roi, now, fault, cap) ==
    LET req == [op |-> "add_sponsorship", role |-> role,
                sponsor_id |-> sponsor_id, event_id |-> event_id,
                req_status |-> status, fault |-> fault]
        reject(code, msg) == /\ resp' = req @@ [status |-> code, error |-> msg]
                             /\ UNCHANGED <<store, transient>>
        st == IF status = None THEN "negotiating" ELSE status[1]
    IN
    /\ IF role \notin AllowedRoles THEN reject(403, "Access denied")
       ELSE IF sponsor_id = None \/ event_id = None
            THEN reject(400, "Sponsor ID and Event ID are required")
       ELSE IF has_amount /\ ~validate_positive_number(amount)
            THEN reject(400, "Amount must be a positive number")
       ELSE IF ~validate_status(st) THEN reject(400, "Invalid status")
       ELSE IF fault THEN reject(500, "Failed to create sponsorship")
       ELSE IF \A sp \in sponsors : sp.id # sponsor_id[1]
            THEN reject(404, "Sponsor not found")
       ELSE IF \A e \in events : e.id # event_id[1]
            THEN reject(404, "Event not found")
       ELSE IF Existing(sponsor_id[1], event_id[1]) # {}
            THEN reject(400, "Sponsorship already exists for this sponsor and event")
       \* float(data["amount"]) raises KeyError when the key is absent
       ELSE IF ~has_amount THEN reject(500, "Failed to create sponsorship")
       ELSE
            /\ next_sponsorship_id <= cap
            /\ sponsorships' = sponsorships \cup
                  {[id |-> next_sponsorship_id, sponsor_id |-> sponsor_id,
                    event_id |-> event_id, amount |-> amount, status |-> st,
                    roi |-> Some(OrZero(new_roi)), created_at |-> Some(now)]}
            /\ next_sponsorship_id' = next_sponsorship_id + 1
            /\ resp' = req @@ [status |-> 201]
            /\ UNCHANGED <<events, next_event_id, sponsors, beside>>

\* The request body holds the key "amount" iff has_amount, "status" iff
\* has_status, "roi" iff has_roi.  get_or_404 raises NotFound inside the
\* try block, which the except clause answers with 500.
update_sponsorship(role, sponsorship_id, has_amount, amount, has_status, status, has_roi, new_roi, fault) ==
    LET req == [op |-> "update_sponsorship", role |-> role,
                sponsorship_id |-> sponsorship_id,
                req_status |-> IF has_status THEN Some(status) ELSE None,
                fault |-> fault]
        reject(code, msg) == /\ resp' = req @@ [status |-> code, error |-> msg]
                             /\ UNCHANGED <<store, transient>>
        found == {s \in sponsorships : s.id = sponsorship_id}
    IN
    IF role \notin AllowedRoles THEN reject(403, "Access denied")
    ELSE IF ~has_amount /\ ~has_status /\ ~has_roi
         THEN reject(400, "Request body is required")
    ELSE IF fault \/ found = {} THEN reject(500, "Failed to update sponsorship")
    ELSE IF has_amount /\ ~validate_positive_number(amount)
         THEN reject(400, "Amount must be a positive number")
    \* the amount assigned above is never committed
    ELSE IF has_status /\ ~validate_status(status)
         THEN reject(400, "Invalid status")
    ELSE
        LET old == CHOOSE s \in found : TRUE
            new == [old EXCEPT
                      !.amount = IF has_amount THEN amount ELSE @,
                      !.status = IF has_status THEN status ELSE @,
                      !.roi = IF has_roi THEN Some(new_roi) ELSE @]
        IN  /\ sponsorships' = (sponsorships \ {old}) \cup {new}
            /\ resp' = req @@ [status |-> 200]
            /\ UNCHANGED <<events, next_event_id, sponsors, next_sponsorship_id, beside>>

delete_sponsorship(role, sponsorship_id, fault) ==
    LET req == [op |-> "delete_sponsorship", role |-> role,
                sponsorship_id |-> sponsorship_id, fault |-> fault]
        found == {s \in sponsorships : s.id = sponsorship_id}
    IN
    IF role \notin AllowedRoles THEN
        /\ resp' = req @@ [status |-> 403]
        /\ UNCHANGED <<store, transient>>
    ELSE IF fault \/ found = {} THEN
        /\ resp' = req @@ [status |-> 500]
        /\ UNCHANGED <<store, transient>>
    ELSE
        /\ sponsorships' = sponsorships \ found
        /\ resp' = req @@ [status |-> 200]
        /\ UNCHANGED <<events, next_event_id, sponsors, next_sponsorship_id, beside>>

----------------------------------------------------------------------------
(* SpecSponsorships: two sponsors and two events, the sponsorships table   *)
(* empty at the start and written only through the sponsorship routes,     *)
(* read by get_top_performing_sponsors.                                    *)

RouteEvents == {RankEvent, [RankEvent EXCEPT !.id = 2]}

TodayNoon == [y |-> 2026, m |-> 2, d |-> 10, h |-> 12]

\* add_sponsorship requests: the well-formed ones, and each of them with
\* one field spoilt
GoodAdds ==
    {[role |-> "finance", sponsor_id |-> Some(sp), event_id |-> Some(ev),
      has_amount |-> TRUE, amount |-> Some(500), status |-> st,
      fault |-> FALSE]
     : sp \in {1, 2}, ev \in {1, 2}, st \in {None, Some("paid")}}

BadAdds ==
    UNION {{[g EXCEPT !.role = "viewer"],
            [g EXCEPT !.sponsor_id = None],
            [g EXCEPT !.sponsor_id = Some(3)],
            [g EXCEPT !.amount = Some(-1)],
            [g EXCEPT !.has_amount = FALSE, !.amount = None],
            [g EXCEPT !.status = Some("completed")],
            [g EXCEPT !.fault = TRUE]}
           : g \in {x \in GoodAdds : x.status = None}}

\* update_sponsorship request bodies: the keys present and their values
UpdateBodies ==
    {[has_amount |-> FALSE, amount |-> None, has_status |-> FALSE, status |-> ""],
     [has_amount |-> TRUE, amount |-> Some(500), has_status |-> FALSE, status |-> ""],
     [has_amount |-> TRUE, amount |-> Some(-1), has_status |-> FALSE, status |-> ""],
     [has_amount |-> FALSE, amount |-> None, has_status |-> TRUE, status |-> "confirmed"],
     [has_amount |-> FALSE, amount |-> None, has_status |-> TRUE, status |-> "completed"],
     [has_amount |-> TRUE, amount |-> Some(500), has_status |-> TRUE, status |-> "completed"]}

InitSponsorships ==
    /\ events = RouteEvents
    /\ next_event_id = 3
    /\ sponsors = RankSponsors
    /\ sponsorships = {}
    /\ next_sponsorship_id = 1
    /\ Elsewhere
    /\ resp = NoCall

AddSponsorship ==
    \E r \in GoodAdds \cup BadAdds :
        add_sponsorship(r.role, r.sponsor_id, r.event_id, r.has_amount, r.amount,
                        r.status, None, TodayNoon, r.fault, MaxRouteSponsorships)

UpdateSponsorship ==
    \E role \in {"finance", "viewer"},
       sponsorship_id \in 1..(MaxRouteSponsorships + 1),
       b \in UpdateBodies, fault \in BOOLEAN :
        /\ (fault \/ role = "viewer") => sponsorship_id = 1
        /\ update_sponsorship(role, sponsorship_id, b.has_amount, b.amount,
                              b.has_status, b.status, FALSE, 0, fault)

DeleteSponsorship ==
    \E role \in {"finance", "viewer"},
       sponsorship_id \in 1..(MaxRouteSponsorships + 1), fault \in BOOLEAN :
        delete_sponsorship(role, sponsorship_id, fault)

RankRouteSponsors ==
    \E limit \in 0..MaxLimit : get_top_performing_sponsors(limit, FALSE)

NextSponsorships ==
    \/ AddSponsorship
    \/ UpdateSponsorship
    \/ DeleteSponsorship
    \/ RankRouteSponsors

SpecSponsorships == InitSponsorships /\ [][NextSponsorships]_vars

----------------------------------------------------------------------------
(* SpecRoutedRanking: sponsorships created through add_sponsorship with    *)
(* amounts 300, 500 and 1000, ranked by get_top_performing_sponsors.       *)

Amounts == {300, 500, 1000}

AddRankedSponsorship ==
    \E sponsor_id \in {1, 2}, event_id \in {1, 2}, amount \in Amounts,
       status \in {None, Some("paid")} :
        add_sponsorship("finance", Some(sponsor_id), Some(event_id), TRUE,
                        Some(amount), status, None, TodayNoon, FALSE,
                        MaxRankedSponsorships)

NextRoutedRanking ==
    \/ AddRankedSponsorship
    \/ RankRouteSponsors

SpecRoutedRanking == InitSponsorships /\ [][NextRoutedRanking]_vars

----------------------------------------------------------------------------
(* FinanceCalculator.get_event_financial_summary and                       *)
(* FinanceCalculator.calculate_sponsor_roi.  Every statement of the two    *)
(* bodies is inside try/except Exception, which answers any exception with *)
(* the error document.                                                     *)

ErrEventNotFound == [error |-> "Event not found"]
ErrEventSummary == [error |-> "Failed to get event financial summary"]
ErrSponsorRoi == [error |-> "Failed to calculate sponsor ROI"]

\* sum(s.amount ...), float(event.budget), float(event.revenue),
\* event.date.isoformat() and event.footfall > 0 raise on None
EventSummaryRaises(e) ==
    \/ \E s \in CompletedOfEvent(e.id) : s.amount = None
    \/ e.budget = None
    \/ e.revenue = None
    \/ e.date = None
    \/ e.footfall = None

\* actual_revenue / event.footfall if event.footfall > 0 else 0
RevenuePerAttendee(actual_revenue, footfall) ==
    IF footfall > 0 THEN RDiv(R(actual_revenue), R(footfall)) ELSE R(0)

EventSummaryDoc(e) ==
    LET total_sponsorship == SumFn([s \in CompletedOfEvent(e.id) |-> s.amount[1]])
        total_budget      == e.budget[1]
        actual_revenue    == e.revenue[1]
    IN  [event_id |-> e.id,
         event_date |-> e.date[1],
         total_budget |-> total_budget,
         actual_revenue |-> actual_revenue,
         total_sponsorship |-> total_sponsorship,
         net_profit |-> actual_revenue - total_budget,
         profit_margin_percentage |->
            calculate_profit_margin(actual_revenue, total_budget),
         budget_utilization_percentage |->
            calculate_budget_utilization(total_sponsorship, total_budget),
         roi_percentage |-> calculate_roi(total_budget, actual_revenue),
         sponsor_count |-> Cardinality(CompletedOfEvent(e.id)),
         footfall |-> e.footfall[1],
         revenue_per_attendee |-> RevenuePerAttendee(actual_revenue, e.footfall[1])]

\* the document get_event_financial_summary(event_id) returns; fault: a
\* store query raises
EventFinancialSummary(event_id, fault) ==
    LET found == {e \in events : e.id = event_id}
    IN  IF fault THEN ErrEventSummary
        ELSE IF found = {} THEN ErrEventNotFound
        ELSE LET e == CHOOSE x \in found : TRUE
             IN  IF EventSummaryRaises(e) THEN ErrEventSummary
                 ELSE EventSummaryDoc(e)

get_event_financial_summary(event_id, fault) ==
    /\ resp' = [op |-> "get_event_financial_summary", event_id |-> event_id,
                fault |-> fault,
                result |-> EventFinancialSummary(event_id, fault)]
    /\ UNCHANGED <<store, transient>>

\* the 'completed' sponsorships of a sponsor
CompletedOfSponsor(sponsor_id) ==
    {s \in sponsorships : s.sponsor_id = Some(sponsor_id) /\ s.status = "completed"}

\* sponsorship.amount * (1 + sponsorship.roi / 100) if sponsorship.roi
\* else sponsorship.amount
SponsorshipRevenue(s) ==
    IF s.roi = None \/ s.roi[1] = 0 THEN R(s.amount[1])
    ELSE RMul(R(s.amount[1]), Factor(R(s.roi[1])))

\* the sum of f over S, f valued in fractions
RSumOver(f) ==
    LET ord == CHOOSE q \in [1..Cardinality(DOMAIN f) -> DOMAIN f] :
                  \A i, j \in 1..Cardinality(DOMAIN f) : i # j => q[i] # q[j]
    IN  RSumSeq([i \in 1..Cardinality(DOMAIN f) |-> f[ord[i]]])

\* the document calculate_sponsor_roi(sponsor_id) returns (event_id = None)
SponsorRoi(sponsor_id, fault) ==
    LET mine == CompletedOfSponsor(sponsor_id)
    IN  IF fault \/ \E s \in mine : s.amount = None THEN ErrSponsorRoi
        ELSE LET total_investment == SumFn([s \in mine |-> s.amount[1]])
                 total_revenue == RSumOver([s \in mine |-> SponsorshipRevenue(s)])
             IN  [sponsor_id |-> sponsor_id,
                  total_investment |-> total_investment,
                  total_revenue |-> total_revenue,
                  roi_percentage |->
                     IF total_investment <= 0 THEN R(0)
                     ELSE RMul(RDiv(RSub(total_revenue, R(total_investment)),
                                    R(total_investment)), R(100)),
                  sponsorship_count |-> Cardinality(mine),
                  net_profit |-> RSub(total_revenue, R(total_investment))]

----------------------------------------------------------------------------
(* utils/reports.py: ReportGenerator.  Every statement of each report       *)
(* function is inside try/except Exception, which answers any exception    *)
(* with the function's error document.  generated_at reads the clock and   *)
(* is left out of the documents; name, contact_person, email and phone     *)
(* take part in no computation and are left out of the rows.               *)

\* the value a body has when one of its statements raises
Raised == [raised |-> TRUE]

\* the except clause left out
Unguarded(body, err) == body

\* try: body  except Exception: return err
Guarded(body, err) == IF body = Raised THEN err ELSE body

ErrEventReport == [error |-> "Failed to generate event report"]

\* `if event_id:` selects one event; None and 0 select them all
SelectedEvents(event_id) ==
    IF event_id # None /\ event_id[1] # 0
    THEN {e \in events : e.id = event_id[1]}
    ELSE events

SponsorshipsOfEvent(event_id) == {s \in sponsorships : s.event_id = Some(event_id)}

\* building event_data raises: event.date.isoformat(), float(event.budget)
\* and float(event.revenue) on None; event.created_at on every Event, the
\* model having no such column; sum(s.amount ...) and
\* float(sponsorship.amount) on None
EventDataRaises(e, format_type) ==
    \/ e.date = None
    \/ e.budget = None
    \/ e.revenue = None
    \/ "created_at" \notin DOMAIN e
    \/ /\ format_type \in {"detailed", "financial"}
       /\ \E s \in SponsorshipsOfEvent(e.id) : s.amount = None

EventData(e, format_type) ==
    [id |-> e.id, date |-> e.date[1], budget |-> e.budget[1],
     revenue |-> e.revenue[1], footfall |-> e.footfall,
     created_at |-> e.created_at]
    @@ (IF format_type \in {"detailed", "financial"}
        THEN [sponsorship_count |-> Cardinality(SponsorshipsOfEvent(e.id)),
              total_sponsorship |->
                 SumFn([s \in SponsorshipsOfEvent(e.id) |-> s.amount[1]]),
              sponsorships |->
                 {[id |-> s.id, amount |-> s.amount[1], status |-> s.status,
                   roi |-> OrZero(s.roi), created_at |-> s.created_at]
                  : s \in SponsorshipsOfEvent(e.id)}]
        ELSE <<>>)
    @@ (IF format_type = "financial"
        THEN [financial_summary |-> EventFinancialSummary(e.id, FALSE)]
        ELSE <<>>)

\* the body of generate_event_report; the entries of 'events' are held as a
\* set
EventReportBody(format_type, event_id, fault) ==
    LET sel == SelectedEvents(event_id)
    IN  IF fault \/ \E e \in sel : EventDataRaises(e, format_type) THEN Raised
        ELSE [report_type |-> "Event Report",
              format |-> format_type,
              event_count |-> Cardinality(sel),
              events |-> {EventData(e, format_type) : e \in sel}]

generate_event_report(format_type, event_id, fault) ==
    /\ resp' = [op |-> "generate_event_report", format_type |-> format_type,
                event_id |-> event_id, fault |-> fault,
                result |-> Guarded(EventReportBody(format_type, event_id, fault),
                                   ErrEventReport)]
    /\ UNCHANGED <<store, transient>>

ErrSponsorReport == [error |-> "Failed to generate sponsor report"]

SelectedSponsors(sponsor_id) ==
    IF sponsor_id # None /\ sponsor_id[1] # 0
    THEN {sp \in sponsors : sp.id = sponsor_id[1]}
    ELSE sponsors

SponsorshipsOfSponsor(sponsor_id) ==
    {s \in sponsorships : s.sponsor_id = Some(sponsor_id)}

\* Event.query.get(sponsorship.event_id)
EventOf(s) == {e \in events : s.event_id = Some(e.id)}

\* building sponsor_data raises: float(sponsorship.amount) and
\* event.date.isoformat() on None
SponsorDataRaises(sp, format_type) ==
    /\ format_type \in {"detailed", "roi_analysis"}
    /\ \E s \in SponsorshipsOfSponsor(sp.id) :
          \/ s.amount = None
          \/ \E e \in EventOf(s) : e.date = None

SponsorData(sp, format_type) ==
    [id |-> sp.id, industry |-> sp.industry,
     total_invested |-> OrZero(sp.total_invested),
     created_at |-> sp.created_at]
    @@ (IF format_type \in {"detailed", "roi_analysis"}
        THEN [sponsorship_count |-> Cardinality(SponsorshipsOfSponsor(sp.id)),
              sponsorships |->
                 {[id |-> s.id, amount |-> s.amount[1], status |-> s.status,
                   roi |-> OrZero(s.roi),
                   event_date |-> IF EventOf(s) = {} THEN None
                                  ELSE (CHOOSE e \in EventOf(s) : TRUE).date,
                   created_at |-> s.created_at]
                  : s \in SponsorshipsOfSponsor(sp.id)}]
        ELSE <<>>)
    @@ (IF format_type = "roi_analysis"
        THEN [roi_metrics |-> SponsorRoi(sp.id, FALSE)]
        ELSE <<>>)

\* the body of generate_sponsor_report; the entries of 'sponsors' are held
\* as a set
SponsorReportBody(format_type, sponsor_id, fault) ==
    LET sel == SelectedSponsors(sponsor_id)
    IN  IF fault \/ \E sp \in sel : SponsorDataRaises(sp, format_type) THEN Raised
        ELSE [report_type |-> "Sponsor Report",
              format |-> format_type,
              sponsor_count |-> Cardinality(sel),
              sponsors |-> {SponsorData(sp, format_type) : sp \in sel}]

generate_sponsor_report(format_type, sponsor_id, fault) ==
    /\ resp' = [op |-> "generate_sponsor_report", format_type |-> format_type,
                sponsor_id |-> sponsor_id, fault |-> fault,
                result |-> Guarded(SponsorReportBody(format_type, sponsor_id, fault),
                                   ErrSponsorReport)]
    /\ UNCHANGED <<store, transient>>

ErrFinancialSummary == [error |-> "Failed to generate financial summary"]

\* Sponsorship.created_at >= start_date and <= end_date, end_date = now and
\* start_date = now - timedelta(days = months * 30)
SponsorshipsInWindow(now, months) ==
    {s \in sponsorships :
        /\ s.created_at # None
        /\ Instant(now) - months * 30 * 24 <= Instant(s.created_at[1])
        /\ Instant(s.created_at[1]) <= Instant(now)}

\* sum(event.budget ...), sum(event.revenue ...), sum(event.footfall ...)
\* and sum(s.amount ... if s.status == 'completed') raise on None
SummaryRaises(W, SW) ==
    \/ \E e \in W : e.budget = None \/ e.revenue = None \/ e.footfall = None
    \/ \E s \in SW : s.status = "completed" /\ s.amount = None

\* the report built around the three embedded results
FinancialSummaryDoc(months, now, trends_result, top_sponsors, projections) ==
    LET W  == EventsInWindow(now, months)
        SW == SponsorshipsInWindow(now, months)
    IN  IF SummaryRaises(W, SW) THEN Raised
        ELSE LET total_budget  == SumFn([e \in W |-> e.budget[1]])
                 total_revenue == SumFn([e \in W |-> e.revenue[1]])
                 total_events  == Cardinality(W)
             IN  [report_type |-> "Financial Summary Report",
                  period_months |-> months,
                  overall_metrics |->
                     [total_events |-> total_events,
                      total_budget |-> total_budget,
                      total_revenue |-> total_revenue,
                      total_sponsorship |->
                         SumFn([s \in {x \in SW : x.status = "completed"}
                                  |-> s.amount[1]]),
                      total_footfall |-> SumFn([e \in W |-> e.footfall[1]]),
                      net_profit |-> total_revenue - total_budget,
                      roi_percentage |-> TotalsRoi(total_revenue, total_budget),
                      revenue_per_event |-> PerOrZero(total_revenue, total_events),
                      budget_per_event |-> PerOrZero(total_budget, total_events)],
                  trends |-> trends_result,
                  top_sponsors |-> top_sponsors,
                  projections |-> projections]

\* every document generate_financial_summary(months) may return at time
\* now.  fault: the store queries raise; the three embedded calls answer
\* with their own error values and the report's own query raises.
FinancialSummaryResults(months, now, fault) ==
    IF fault THEN {Guarded(Raised, ErrFinancialSummary)}
    ELSE {Guarded(FinancialSummaryDoc(months, now, trends_result, top,
                                      ProjectionsDoc(hist, 6)),
                  ErrFinancialSummary)
          : trends_result \in TrendsResults(months, now, FALSE),
            top \in TopSponsorsResults(10, FALSE),
            hist \in TrendsResults(6, now, FALSE)}

generate_financial_summary(months, now, fault) ==
    \E doc \in FinancialSummaryResults(months, now, fault) :
        /\ resp' = [op |-> "generate_financial_summary", months |-> months,
                    now |-> now, fault |-> fault, result |-> doc]
        /\ UNCHANGED <<store, transient>>

ErrRoiAnalysis == [error |-> "Failed to generate ROI analysis"]

\* data['industry'] or 'Unknown': None and '' are falsy
IndustryLabel(industry) ==
    IF industry = None \/ industry[1] = "" THEN "Unknown" ELSE industry[1]

\* investment * (1 + (avg_roi / 100)) if avg_roi else investment
GroupRevenue(g) ==
    IF g.avg_roi = None \/ g.avg_roi[1] = R(0) THEN R(g.total_investment[1])
    ELSE RMul(R(g.total_investment[1]), Factor(g.avg_roi[1]))

RoiEntry(g) ==
    [sponsor_id |-> g.sponsor.id,
     industry |-> g.sponsor.industry,
     total_investment |-> g.total_investment[1],
     total_revenue |-> GroupRevenue(g),
     sponsorship_count |-> g.sponsorship_count,
     average_roi |-> IF g.avg_roi = None THEN R(0) ELSE g.avg_roi[1],
     net_profit |-> RSub(GroupRevenue(g), R(g.total_investment[1]))]

\* ((total_revenue - total_investment) / total_investment) * 100 if
\* total_investment > 0, else 0
RevenueRoi(total_revenue, total_investment) ==
    IF total_investment > 0
    THEN RMul(RDiv(RSub(total_revenue, R(total_investment)), R(total_investment)),
              R(100))
    ELSE R(0)

\* the dict industry_analysis built from roi_data
IndustryAnalysis(roi_data) ==
    [b \in {IndustryLabel(d.industry) : d \in roi_data} |->
        LET mine == {d \in roi_data : IndustryLabel(d.industry) = b}
            inv  == SumFn([d \in mine |-> d.total_investment])
            rev  == RSumOver([d \in mine |-> d.total_revenue])
        IN  [sponsors |-> Cardinality(mine),
             total_investment |-> inv,
             total_revenue |-> rev,
             avg_roi |-> RevenueRoi(rev, inv)]]

\* the body of generate_roi_analysis once the grouped query returned the
\* rows q, in the order roi_data.sort(..., reverse=True) leaves them.
\* investment * ... and float(investment) raise on a NULL sum.
RoiAnalysisBody(q) ==
    IF \E i \in 1..Len(q) : q[i].total_investment = None THEN Raised
    ELSE LET roi_data == {RoiEntry(q[i]) : i \in 1..Len(q)}
             inv == SumFn([d \in roi_data |-> d.total_investment])
             rev == RSumOver([d \in roi_data |-> d.total_revenue])
         IN  [report_type |-> "ROI Analysis Report",
              overall_metrics |->
                 [total_sponsors |-> Len(q),
                  total_investment |-> inv,
                  total_revenue |-> rev,
                  total_net_profit |-> RSub(rev, R(inv)),
                  overall_roi_percentage |-> RevenueRoi(rev, inv),
                  average_investment_per_sponsor |-> PerOrZero(inv, Len(q))],
              sponsor_details |-> [i \in 1..Len(q) |-> RoiEntry(q[i])],
              industry_analysis |-> IndustryAnalysis(roi_data)]

\* the orders that put the NULL sums anywhere: the query has no ORDER BY,
\* and the sort is reached only when no sum is NULL
GroupOrders(G) ==
    IF \E g \in G : g.total_investment = None
    THEN {q \in [1..Cardinality(G) -> G] :
             \A i, j \in 1..Cardinality(G) : i # j => q[i] # q[j]}
    ELSE DescOrders(G)

generate_roi_analysis(fault) ==
    \E q \in GroupOrders(SponsorGroups({s \in sponsorships : s.status = "completed"})) :
        /\ resp' = [op |-> "generate_roi_analysis", fault |-> fault,
                    result |-> Guarded(IF fault THEN Raised ELSE RoiAnalysisBody(q),
                                       ErrRoiAnalysis)]
        /\ UNCHANGED <<store, transient>>

ErrMonthlyReport == [error |-> "Failed to generate monthly report"]

\* datetime(year, month, 1)
MonthStart(year, month) == [y |-> year, m |-> month, d |-> 1, h |-> 0]

\* the instant of end_date: the first day of the next month, less one day
MonthEndInstant(year, month) ==
    Instant(IF month = 12 THEN MonthStart(year + 1, 1)
            ELSE MonthStart(year, month + 1)) - 24

\* column >= start_date and column <= end_date, for a DATE column (compared
\* as midnight) and for a DATETIME column
DateInMonth(date, year, month) ==
    /\ date # None
    /\ Instant(MonthStart(year, month)) <= Ordinal(date[1]) * 24
    /\ Ordinal(date[1]) * 24 <= MonthEndInstant(year, month)

StampInMonth(created_at, year, month) ==
    /\ created_at # None
    /\ Instant(MonthStart(year, month)) <= Instant(created_at[1])
    /\ Instant(created_at[1]) <= MonthEndInstant(year, month)

\* the body of generate_monthly_report.  datetime(year, month, 1) raises
\* ValueError for a month outside 1..12; the sums, float(event.budget),
\* float(event.revenue) and float(sponsorship.amount) raise on None.  The
\* entries of the three lists are held as sets.
MonthlyReportBody(year, month, fault) ==
    IF fault \/ month \notin 1..12 THEN Raised
    ELSE LET evs == {e \in events : DateInMonth(e.date, year, month)}
             sps == {s \in sponsorships : StampInMonth(s.created_at, year, month)}
             new_sponsors == {sp \in sponsors : StampInMonth(sp.created_at, year, month)}
             completed == {s \in sps : s.status = "completed"}
         IN  IF \/ \E e \in evs : e.budget = None \/ e.revenue = None
                                  \/ e.footfall = None
                \/ \E s \in sps : s.amount = None
             THEN Raised
             ELSE LET total_budget  == SumFn([e \in evs |-> e.budget[1]])
                      total_revenue == SumFn([e \in evs |-> e.revenue[1]])
                  IN  [report_type |-> "Monthly Report",
                       year |-> year,
                       month |-> month,
                       period_start |-> Instant(MonthStart(year, month)),
                       period_end |-> MonthEndInstant(year, month),
                       summary_metrics |->
                          [total_events |-> Cardinality(evs),
                           total_budget |-> total_budget,
                           total_revenue |-> total_revenue,
                           net_profit |-> total_revenue - total_budget,
                           total_footfall |-> SumFn([e \in evs |-> e.footfall[1]]),
                           new_sponsors |-> Cardinality(new_sponsors),
                           completed_sponsorships |-> Cardinality(completed),
                           total_sponsorship_amount |->
                              SumFn([s \in completed |-> s.amount[1]]),
                           roi_percentage |-> TotalsRoi(total_revenue, total_budget)],
                       detailed_data |->
                          [events |->
                              {[id |-> e.id, date |-> e.date[1],
                                budget |-> e.budget[1], revenue |-> e.revenue[1],
                                footfall |-> e.footfall[1],
                                profit |-> e.revenue[1] - e.budget[1]] : e \in evs},
                           new_sponsors |->
                              {[id |-> sp.id, industry |-> sp.industry,
                                created_at |-> sp.created_at] : sp \in new_sponsors},
                           sponsorships |->
                              {[id |-> s.id, amount |-> s.amount[1],
                                status |-> s.status, roi |-> OrZero(s.roi),
                                created_at |-> s.created_at] : s \in sps}]]

generate_monthly_report(year, month, fault) ==
    /\ resp' = [op |-> "generate_monthly_report", year |-> year, month |-> month,
                fault |-> fault,
                result |-> Guarded(MonthlyReportBody(year, month, fault),
                                   ErrMonthlyReport)]
    /\ UNCHANGED <<store, transient>>

----------------------------------------------------------------------------
(* routes/analytics.py: reports                                            *)

ErrReports == [error |-> "Failed to generate reports"]

\* Event.date >= today - timedelta(days): the bound carries today's time of
\* day and a DATE column compares as midnight; a NULL date fails
DateSince(date, today, days) ==
    /\ date # None
    /\ Ordinal(today) - days < Ordinal(date[1])

\* the rows of sponsors JOIN sponsorships ON sponsors.id = sponsor_id, each
\* named by its sponsorship
JoinedRows == {s \in sponsorships : \E sp \in sponsors : s.sponsor_id = Some(sp.id)}

SponsorOf(s) == CHOOSE sp \in sponsors : s.sponsor_id = Some(sp.id)

\* GROUP BY Sponsor.industry: one group per stored value, the NULLs
\* together in one group
IndustryGroups ==
    { LET mine == {s \in JoinedRows : SponsorOf(s).industry = raw}
      IN  [industry |-> raw,
           count |-> Cardinality(mine),
           total_investment |-> SqlSum([s \in mine |-> s.amount])]
      : raw \in {SponsorOf(s).industry : s \in JoinedRows} }

\* every ordering of the rows DOMAIN key that ORDER BY key DESC may return
OrdersByKey(key) ==
    LET G == DOMAIN key
    IN  {q \in [1..Cardinality(G) -> G] :
            /\ \A i, j \in 1..Cardinality(G) : i # j => q[i] # q[j]
            /\ \A i, j \in 1..Cardinality(G) : i < j => key[q[i]] >= key[q[j]]}

IndustryBreakdown(q) ==
    [i \in 1..Len(q) |->
        [industry |-> IndustryLabel(q[i].industry),
         sponsor_count |-> q[i].count,
         total_investment |-> FloatOrZero(q[i].total_investment)]]

\* the sponsor's name is stood for by its id
TopSponsorAmounts(q) ==
    [i \in 1..Len(q) |->
        [name |-> q[i].sponsor.id,
         total_amount |-> FloatOrZero(q[i].total_investment)]]

TopEvents(q) ==
    [i \in 1..Len(q) |->
        [name |-> q[i].id,
         date |-> q[i].date,
         revenue |-> FloatOrZero(q[i].revenue),
         budget |-> FloatOrZero(q[i].budget),
         profit |-> OrZero(q[i].revenue) - OrZero(q[i].budget)]]

Performance(today) ==
    LET events_last_month == {e \in events : DateSince(e.date, today, 30)}
    IN  [events |->
            [total |-> Cardinality(events),
             last_month |-> Cardinality(events_last_month),
             last_quarter |->
                Cardinality({e \in events : DateSince(e.date, today, 90)}),
             last_year |->
                Cardinality({e \in events : DateSince(e.date, today, 365)})],
         sponsors |->
            [total |-> Cardinality(sponsors),
             active |-> Cardinality({SponsorOf(s) : s \in JoinedRows})],
         financial |->
            [last_month_revenue |->
                SumFn([e \in events_last_month |-> OrZero(e.revenue)]),
             last_month_budget |->
                SumFn([e \in events_last_month |-> OrZero(e.budget)]),
             last_month_profit |->
                SumFn([e \in events_last_month |->
                          OrZero(e.revenue) - OrZero(e.budget)])]]

\* every body the handler may answer with status 200
ReportsResults(today) ==
    {[performance |-> Performance(today),
      top_sponsors |-> TopSponsorAmounts(Limit(ts, 10)),
      top_events |-> TopEvents(Limit(te, 10)),
      industry_breakdown |-> IndustryBreakdown(ib)]
     : ts \in DescOrders(SponsorGroups(sponsorships)),
       te \in OrdersByKey([e \in {x \in events : x.revenue # None}
                               |-> e.revenue[1]]),
       ib \in OrdersByKey([g \in IndustryGroups |-> g.count])}

\* fault: a store query raises
reports(role, today, fault) ==
    /\ \E out \in IF role \notin AllowedRoles
                  THEN {[status |-> 403, result |-> [error |-> "Access denied"]]}
                  ELSE IF fault
                  THEN {[status |-> 500, result |-> ErrReports]}
                  ELSE {[status |-> 200, result |-> r] : r \in ReportsResults(today)} :
          resp' = [op |-> "reports", role |-> role, fault |-> fault] @@ out
    /\ UNCHANGED <<store, transient>>

----------------------------------------------------------------------------
(* SpecReports: the report functions and the reports route reading stores  *)
(* the schema admits (models.py: every column but id is nullable, industry *)
(* and status are free strings).  The stores come in three families:       *)
(*   - events tables of at most MaxReportRows rows, dated or not, with     *)
(*     footfall NULL, 0 or 50, with or without a completed sponsorship;    *)
(*   - at most MaxReportRows sponsors, each with one sponsorship to the    *)
(*     one event, over the industries NULL, '', 'Unknown' and 'Tech'       *)
(*     ('Tech' also with a paid one and with one without an amount);       *)
(*   - one event, one sponsor and one sponsorship placed around the        *)
(*     borders of January 2026.                                            *)
(* A failing store (fault) is tried once for each function.                *)

MaxReportRows == 2

ReportStores ==
    LET Dec31 == [y |-> 2025, m |-> 12, d |-> 31]
        Jan1  == [y |-> 2026, m |-> 1, d |-> 1]
        Jan31 == [y |-> 2026, m |-> 1, d |-> 31]
        Feb1  == [y |-> 2026, m |-> 2, d |-> 1]
        At(date, hour) == [y |-> date.y, m |-> date.m, d |-> date.d, h |-> hour]
        SponsorRow(id, industry, created_at) ==
            [id |-> id, industry |-> industry, total_invested |-> Some(0),
             created_at |-> created_at]
        SponsorshipRow(id, k, created_at) ==
            [id |-> id, sponsor_id |-> Some(id), event_id |-> Some(1),
             amount |-> k.amount, status |-> k.status, roi |-> k.roi,
             created_at |-> created_at]
        Completed500 ==
            [amount |-> Some(500), status |-> "completed", roi |-> Some(10)]
        EventRows(id) ==
            {[id |-> id, date |-> k[1], budget |-> Some(1000),
              revenue |-> Some(1500), footfall |-> k[2]]
             : k \in {<<None, Some(50)>>, <<Some(Dec15), Some(50)>>,
                      <<Some(Jan20), None>>, <<Some(Jan20), Some(0)>>,
                      <<Some(Jan20), Some(50)>>}}
        \* an industry and the sponsorship of the sponsor that has it
        UnitKinds ==
            {<<industry, Completed500>>
                : industry \in {None, Some(""), Some("Unknown"), Some("Tech")}}
            \cup {<<Some("Tech"),
                    [amount |-> Some(500), status |-> "paid", roi |-> Some(0)]>>,
                  <<Some("Tech"),
                    [amount |-> None, status |-> "completed", roi |-> None]>>}
        \* a sponsor and its sponsorship
        SponsorUnits(id) ==
            {[sponsor |-> SponsorRow(id, k[1], Some(At(Jan20, 12))),
              sponsorship |-> SponsorshipRow(id, k[2], Some(At(Jan20, 12)))]
             : k \in UnitKinds}
        \* tables of n rows with ids 1..n, row i drawn from Rows(i)
        TablesOf(Rows(_), n) ==
            {{t[i] : i \in 1..n} :
                t \in {f \in [1..n -> UNION {Rows(i) : i \in 1..n}] :
                          \A i \in 1..n : f[i] \in Rows(i)}}
        EventStores ==
            {[events |-> t,
              sponsors |-> {SponsorRow(1, Some("Tech"), Some(At(Jan20, 12)))},
              sponsorships |-> ss]
             : t \in UNION {TablesOf(EventRows, n) : n \in 0..MaxReportRows},
               ss \in {{}, {SponsorshipRow(1, Completed500, Some(At(Jan20, 12)))}}}
        SponsorStores ==
            {[events |-> {RankEvent},
              sponsors |-> {u.sponsor : u \in t},
              sponsorships |-> {u.sponsorship : u \in t}]
             : t \in UNION {TablesOf(SponsorUnits, n) : n \in 0..MaxReportRows}}
        MonthStores ==
            {[events |-> {[RankEvent EXCEPT !.date = Some(date)]},
              sponsors |-> {SponsorRow(1, Some("Tech"), stamp)},
              sponsorships |-> {SponsorshipRow(1, Completed500, stamp)}]
             : date \in {Dec31, Jan1, Jan31, Feb1},
               stamp \in {None, Some(At(Dec31, 23)), Some(At(Jan1, 0)),
                          Some(At(Jan31, 0)), Some(At(Jan31, 12)),
                          Some(At(Jan31, 23)), Some(At(Feb1, 0))}}
    IN  EventStores \cup SponsorStores \cup MonthStores

InitReports ==
    /\ \E st \in ReportStores :
          /\ events = st.events
          /\ sponsors = st.sponsors
          /\ sponsorships = st.sponsorships
    /\ next_event_id = Cardinality(events) + 1
    /\ next_sponsorship_id = Cardinality(sponsorships) + 1
    /\ Elsewhere
    /\ resp = NoCall

GenerateSponsorReport ==
    \E format_type \in {"summary", "detailed", "roi_analysis"},
       sponsor_id \in {None, Some(1), Some(MaxReportRows + 1)},
       fault \in BOOLEAN :
        /\ fault => (format_type = "summary" /\ sponsor_id = None)
        /\ generate_sponsor_report(format_type, sponsor_id, fault)

GenerateEventReport ==
    \E format_type \in {"summary", "detailed", "financial"},
       event_id \in {None, Some(1), Some(MaxReportRows + 1)},
       fault \in BOOLEAN :
        /\ fault => (format_type = "summary" /\ event_id = None)
        /\ generate_event_report(format_type, event_id, fault)

GenerateFinancialSummary ==
    \E months \in {1, 12}, fault \in BOOLEAN :
        /\ fault => months = 12
        /\ generate_financial_summary(months, TodayNoon, fault)

GenerateRoiAnalysis ==
    \E fault \in BOOLEAN : generate_roi_analysis(fault)

GenerateMonthlyReport ==
    \E year \in {2025, 2026}, month \in {0, 1, 12, 13}, fault \in BOOLEAN :
        /\ fault => (year = 2026 /\ month = 1)
        /\ generate_monthly_report(year, month, fault)

GetEventFinancialSummary ==
    \E event_id \in 1..(MaxReportRows + 1), fault \in BOOLEAN :
        /\ fault => event_id = 1
        /\ get_event_financial_summary(event_id, fault)

Reports ==
    \E role \in {"finance", "viewer"}, fault \in BOOLEAN :
        reports(role, TodayNoon, fault)

NextReports ==
    \/ GenerateSponsorReport
    \/ GenerateEventReport
    \/ GenerateFinancialSummary
    \/ GenerateRoiAnalysis
    \/ GenerateMonthlyReport
    \/ GetEventFinancialSummary
    \/ Reports

SpecReports == InitReports /\ [][NextReports]_vars

----------------------------------------------------------------------------
(* C1: calculate_roi(investment, revenue) is (revenue - investment) /      *)
(* investment * 100 for every investment > 0, negative when revenue <      *)
(* investment, and 0 for every investment <= 0.                            *)

C5_ProfitMarginFormula ==
    resp.op = "calculate_profit_margin" =>
        /\ IsNum(resp.result)
        /\ resp.revenue > 0 =>
              resp.result.n * resp.revenue
                 = (resp.revenue - resp.costs) * 100 * resp.result.d
        /\ resp.revenue <= 0 => resp.result = R(0)

C5_Witness ==
    /\ resp.op = "calculate_profit_margin"
    /\ resp.revenue = 4
    /\ resp.costs = 3
    /\ resp.result = R(25)

----------------------------------------------------------------------------
(* C2: every roi_percentage of the /roi endpoint's events_roi is           *)
(* (revenue - budget) / budget * 100 when the event's budget > 0 and 0     *)
(* when the budget is 0 or null, whatever the revenue.                     *)

EventById(id) == CHOOSE e \in events : e.id = id

C2_EventRoiPolicy ==
    (resp.op = "roi" /\ resp.status = 200) =>
        \A x \in resp.body.events_roi :
            LET e == EventById(x.event_id)
                b == OrZero(e.budget)
                r == OrZero(e.revenue)
            IN  /\ b > 0 => x.roi_percentage.n * b = (r - b) * 100 * x.roi_percentage.d
                /\ b = 0 => x.roi_percentage = R(0)

(* C3: for a collection of events, also one holding a null budget or       *)
(* revenue, overview, dashboard and analyze_financial_trends report the    *)
(* sums of budget and of revenue with null counted as 0 and report no      *)
(* error.  (Stated for calls whose store queries answer; the window of     *)
(* analyze_financial_trends is taken non-empty.)                           *)

C3_NullTolerantTotals ==
    /\ (resp.op = "overview" /\ resp.status = 200) =>
          /\ resp.body.total_budget = SumFn([e \in events |-> OrZero(e.budget)])
          /\ resp.body.total_revenue = SumFn([e \in events |-> OrZero(e.revenue)])
    /\ (resp.op = "dashboard" /\ resp.status = 200) =>
          /\ resp.body.financial.total_budget
                = SumFn([e \in events |-> OrZero(e.budget)])
          /\ resp.body.financial.total_revenue
                = SumFn([e \in events |-> OrZero(e.revenue)])
    /\ (/\ resp.op = "analyze_financial_trends"
        /\ ~resp.fault
        /\ EventsInWindow(resp.now, resp.months) # {}) =>
          /\ ~IsError(resp.result)
          /\ resp.result.total_budget
                = SumFn([e \in EventsInWindow(resp.now, resp.months)
                           |-> OrZero(e.budget)])
          /\ resp.result.total_revenue
                = SumFn([e \in EventsInWindow(resp.now, resp.months)
                           |-> OrZero(e.revenue)])

(* C4 as claimed: overview's profit is total_revenue - total_budget, not   *)
(* floored at zero, and roi_percentage is exactly profit / total_budget *  *)
(* 100 when total_budget > 0, else 0.                                      *)

C4_ExactRoi ==
    (resp.op = "overview" /\ resp.status = 200) =>
        LET b == resp.body IN
        /\ b.profit = b.total_revenue - b.total_budget
        /\ b.total_budget > 0 =>
              b.roi_percentage.n * b.total_budget
                 = b.profit * 100 * b.roi_percentage.d
        /\ b.total_budget <= 0 => b.roi_percentage = R(0)

(* C4 as amended: profit is total_revenue - total_budget, negative when    *)
(* revenue < budget; roi_percentage is profit / total_budget * 100         *)
(* rounded to two decimal places (a whole number of hundredths, at most    *)
(* half a hundredth away) when total_budget > 0, else 0.                   *)

C4_RoundedRoi ==
    (resp.op = "overview" /\ resp.status = 200) =>
        LET b == resp.body
            q == b.roi_percentage.n * (100 \div b.roi_percentage.d)
        IN
        /\ b.total_budget = SumFn([e \in events |-> OrZero(e.budget)])
        /\ b.total_revenue = SumFn([e \in events |-> OrZero(e.revenue)])
        /\ b.profit = b.total_revenue - b.total_budget
        /\ 100 % b.roi_percentage.d = 0
        /\ b.total_budget > 0 =>
              2 * Abs(q * b.total_budget - b.profit * 10000) <= b.total_budget
        /\ b.total_budget <= 0 => b.roi_percentage = R(0)

\* the claim's example: (1000, 1500) and (2000, 1800)
C4_Witness ==
    /\ resp.op = "overview" /\ resp.status = 200
    /\ {<<e.budget, e.revenue>> : e \in events}
          = {<<Some(1000), Some(1500)>>, <<Some(2000), Some(1800)>>}
    /\ resp.body.total_budget = 3000
    /\ resp.body.total_revenue = 3300
    /\ resp.body.profit = 300
    /\ resp.body.roi_percentage = R(10)

----------------------------------------------------------------------------
(* Monthly groups stated from the rows, without the loop and the sort      *)

\* the <<year, month>> a 'YYYY-MM' key spells
KeyYM(key) ==
    << (key[1] - 48) * 1000 + (key[2] - 48) * 100 + (key[3] - 48) * 10
          + (key[4] - 48),
       (key[6] - 48) * 10 + (key[7] - 48) >>

MonthIndex(ym) == ym[1] * 12 + ym[2]

MonthsOf(W) == {<<e.date[1].y, e.date[1].m>> : e \in W}

EventsOfMonth(W, ym) == {e \in W : <<e.date[1].y, e.date[1].m>> = ym}

\* the k-th month of W in calendar order
KthMonth(W, k) ==
    CHOOSE ym \in MonthsOf(W) :
        Cardinality({o \in MonthsOf(W) : MonthIndex(o) < MonthIndex(ym)}) = k - 1

Orderings(W) ==
    {q \in [1..Cardinality(W) -> W] :
        \A i, j \in 1..Cardinality(W) : i # j => q[i] # q[j]}

\* percentage change g from prev to curr, 0 on a zero base
IsGrowth(g, curr, prev) ==
    IF prev > 0 THEN IsNum(g) /\ g.n * prev = (curr - prev) * 100 * g.d
    ELSE g = R(0)

(* C6: monthly grouping does not depend on the order of the events: every  *)
(* ordering of the same events gives the same monthly_trends; its groups   *)
(* are in strictly ascending (year, month) order, one per distinct month;  *)
(* the first group has neither revenue_growth nor event_growth.            *)

C6_MonthlyGrouping ==
    (resp.op = "analyze_financial_trends" /\ ~IsError(resp.result)) =>
        LET t == resp.result.monthly_trends
            W == EventsInWindow(resp.now, resp.months)
        IN  /\ \A q \in Orderings(W) :
                  TrendsDoc(q, resp.months).monthly_trends = t
            /\ \A i, j \in 1..Len(t) :
                  i < j => MonthIndex(KeyYM(t[i].month)) < MonthIndex(KeyYM(t[j].month))
            /\ {KeyYM(t[i].month) : i \in 1..Len(t)} = MonthsOf(W)
            /\ Len(t) = Cardinality(MonthsOf(W))
            /\ "revenue_growth" \notin DOMAIN t[1]
            /\ "event_growth" \notin DOMAIN t[1]

\* an event of January 2026 stored before an event of December 2025
C6_Witness ==
    /\ resp.op = "analyze_financial_trends" /\ ~IsError(resp.result)
    /\ Len(resp.result.monthly_trends) = 2
    /\ \E a, b \in EventsInWindow(resp.now, resp.months) :
          /\ a.id < b.id
          /\ a.date = Some(Jan20) /\ b.date = Some(Dec15)
    /\ KeyYM(resp.result.monthly_trends[1].month) = <<2025, 12>>
    /\ KeyYM(resp.result.monthly_trends[2].month) = <<2026, 1>>

(* C7: in every monthly group after the first, revenue_growth and          *)
(* event_growth are the percentage change of total_revenue and event_count *)
(* against the group just before it in the output, and 0 when that group's *)
(* base value is 0.                                                        *)

C7_GrowthAgainstPreceding ==
    (resp.op = "analyze_financial_trends" /\ ~IsError(resp.result)) =>
        LET t == resp.result.monthly_trends
        IN  \A i \in 2..Len(t) :
               /\ DOMAIN t[i] = DOMAIN t[1] \cup {"revenue_growth", "event_growth"}
               /\ IsGrowth(t[i].revenue_growth, t[i].total_revenue,
                           t[i - 1].total_revenue)
               /\ IsGrowth(t[i].event_growth, t[i].event_count,
                           t[i - 1].event_count)
               /\ t[i - 1].total_revenue = 0 => t[i].revenue_growth = R(0)

\* revenues 1000, 0, 1000: -100 % into the second month, 0 out of its zero base
C7_Witness ==
    /\ resp.op = "analyze_financial_trends" /\ ~IsError(resp.result)
    /\ Len(resp.result.monthly_trends) = 3
    /\ resp.result.monthly_trends[1].total_revenue = 1000
    /\ resp.result.monthly_trends[2].total_revenue = 0
    /\ resp.result.monthly_trends[2].revenue_growth = R(-100)
    /\ resp.result.monthly_trends[3].total_revenue = 1000
    /\ resp.result.monthly_trends[3].revenue_growth = R(0)

\* the rows of the 6-month history window
History == EventsInWindow(resp.now, 6)

(* C8: generate_financial_projections returns an error document, one with  *)
(* an 'error' entry and no projections, whenever the history window holds  *)
(* fewer than 2 monthly groups: exactly 1 group or none.                   *)

C8_InsufficientHistory ==
    (resp.op = "generate_financial_projections"
        /\ Cardinality(MonthsOf(History)) < 2) =>
        /\ IsError(resp.result)
        /\ DOMAIN resp.result = {"error"}

\* one month of history, every row complete, the store answering
C8_Witness ==
    /\ resp.op = "generate_financial_projections"
    /\ resp.projected_months > 0
    /\ ~resp.fault
    /\ Cardinality(History) = 2
    /\ Cardinality(MonthsOf(History)) = 1
    /\ ~RaisesTypeError(History)
    /\ resp.result = ErrInsufficient

\* the history analysis succeeds with at least 2 monthly groups
HistoryOk ==
    /\ ~resp.fault
    /\ ~RaisesTypeError(History)
    /\ Cardinality(MonthsOf(History)) >= 2

\* total revenue and event count of the k-th month of the history
HistRevenue(k) ==
    SumFn([e \in EventsOfMonth(History, KthMonth(History, k)) |-> e.revenue[1]])

HistCount(k) == Cardinality(EventsOfMonth(History, KthMonth(History, k)))

\* avg is the mean of the month-to-month growth of f over the history
IsAverageGrowth(avg, f(_)) ==
    LET G == Cardinality(MonthsOf(History))
    IN  \E rates \in [1..(G - 1) -> {Growth(f(k + 1), f(k)) : k \in 1..(G - 1)}] :
           /\ \A k \in 1..(G - 1) : IsGrowth(rates[k], f(k + 1), f(k))
           /\ RMul(avg, R(G - 1)) = RSumSeq(rates)

\* the shape of the projection list and its revenue column
ProjectionCommon ==
    LET doc == resp.result
        p   == doc.projections
        G   == Cardinality(MonthsOf(History))
    IN  /\ Len(p) = resp.projected_months
        /\ IsAverageGrowth(doc.avg_revenue_growth_rate, HistRevenue)
        /\ IsAverageGrowth(doc.avg_event_growth_rate, HistCount)
        /\ \A i \in 1..Len(p) :
              /\ p[i].month = i
              /\ p[i].projected_revenue
                    = RMul(IF i = 1 THEN R(HistRevenue(G))
                                    ELSE p[i - 1].projected_revenue,
                           Factor(doc.avg_revenue_growth_rate))

\* the event count entry i is computed from
PrevEvents(i) ==
    IF i = 1 THEN HistCount(Cardinality(MonthsOf(History)))
    ELSE resp.result.projections[i - 1].projected_events

(* C9 as claimed: with at least 2 historical monthly groups the result     *)
(* holds exactly projected_months entries numbered 1..projected_months,    *)
(* and each entry's projected_revenue and projected_events equal the       *)
(* previous step's value times (1 + average growth rate / 100), the same   *)
(* average rates at every step.                                            *)

----------------------------------------------------------------------------
(* C10: for every limit k >= 0 and every store state,                      *)
(* get_top_performing_sponsors(k) returns at most k entries, ordered       *)
(* non-increasing by total_investment, ties in either order; also on the   *)
(* error path.                                                             *)

C10_AtMostLimitSorted ==
    resp.op = "get_top_performing_sponsors" =>
        /\ Len(resp.result) <= resp.limit
        /\ \A i, j \in 1..Len(resp.result) :
              (/\ i < j
               /\ "total_investment" \in DOMAIN resp.result[i]
               /\ "total_investment" \in DOMAIN resp.result[j])
              => resp.result[i].total_investment >= resp.result[j].total_investment

----------------------------------------------------------------------------
\* the stored sponsorships of a (sponsor, event) pair, both given as
\* request values
StoredPair(sponsor_id, event_id) ==
    {s \in sponsorships : s.sponsor_id = sponsor_id /\ s.event_id = event_id}

\* the request got past require_role and every store query answered
Served(r) == r.role \in {"admin", "finance"} /\ ~r.fault

(* C16: after add_sponsorship, update_sponsorship and delete_sponsorship    *)
(* requests processed one at a time, no two stored sponsorships have the   *)
(* same (sponsor_id, event_id) pair; an add_sponsorship for a pair that    *)
(* already exists creates nothing and leaves the store unchanged, and a    *)
(* caller admitted by require_role whose store queries answer gets status  *)
(* 400.                                                                    *)

C16_OnePerPair ==
    /\ [](\A a, b \in sponsorships :
             (a.sponsor_id = b.sponsor_id /\ a.event_id = b.event_id) => a = b)
    /\ [][(/\ resp'.op = "add_sponsorship"
           /\ resp'.sponsor_id # None
           /\ StoredPair(resp'.sponsor_id, resp'.event_id) # {})
          => /\ store' = store
             /\ resp'.status # 201
             /\ Served(resp') => resp'.status = 400]_vars

\* a well-formed request for a stored pair, answered by the duplicate check
C16_Witness ==
    /\ resp.op = "add_sponsorship"
    /\ Served(resp)
    /\ StoredPair(resp.sponsor_id, resp.event_id) # {}
    /\ resp.status = 400
    /\ resp.error = "Sponsorship already exists for this sponsor and event"
    /\ Cardinality(sponsorships) = 2

(* C20: in every store state reached through the sponsorship routes each   *)
(* sponsorship's status is one of negotiating, confirmed, paid, cancelled; *)
(* an add_sponsorship or update_sponsorship carrying another status value  *)
(* changes no stored row, and is answered 400 when require_role admits the *)
(* caller and, for an update, the sponsorship exists and the store         *)
(* answers.                                                                *)

C20_StatusVocabulary ==
    /\ [](\A s \in sponsorships :
             s.status \in {"negotiating", "confirmed", "paid", "cancelled"})
    /\ [][(/\ resp'.op \in {"add_sponsorship", "update_sponsorship"}
           /\ resp'.req_status # None
           /\ resp'.req_status[1]
                 \notin {"negotiating", "confirmed", "paid", "cancelled"})
          => /\ sponsorships' = sponsorships
             /\ resp'.status \notin {200, 201}
             /\ (/\ resp'.role \in {"admin", "finance"}
                 /\ resp'.op = "update_sponsorship"
                       => /\ ~resp'.fault
                          /\ \E s \in sponsorships : s.id = resp'.sponsorship_id)
                => resp'.status = 400]_vars

\* an update of a stored 'paid' sponsorship to 'completed', refused
C20_Witness ==
    /\ resp.op = "update_sponsorship"
    /\ resp.req_status = Some("completed")
    /\ resp.status = 400
    /\ resp.error = "Invalid status"
    /\ \E s \in sponsorships : s.id = resp.sponsorship_id /\ s.status = "paid"

----------------------------------------------------------------------------
\* the stored sponsorships of a sponsor, their sum and the sponsors that
\* have any
SponsorRows(id) == {s \in sponsorships : s.sponsor_id = Some(id)}

SponsorTotal(id) == SumFn([s \in SponsorRows(id) |-> OrZero(s.amount)])

Backed == {sp.id : sp \in {x \in sponsors : SponsorRows(x.id) # {}}}

(* C11: sponsor ranking groups the stored sponsorships by sponsor: with    *)
(* the store answering, the result holds one entry for each sponsor that   *)
(* has sponsorships, up to the limit; each entry's total_investment is the *)
(* sum of that sponsor's amounts and sponsorship_count their number; the   *)
(* sponsor with the largest sum comes first.  With (A, 500), (A, 300),     *)
(* (B, 1000) and limit 1 the result is B with 1000 and 1.                  *)

C11_RankingGroupsStored ==
    (resp.op = "get_top_performing_sponsors" /\ ~resp.fault) =>
        LET r == resp.result
            n == IF resp.limit < Cardinality(Backed) THEN resp.limit
                 ELSE Cardinality(Backed)
        IN  /\ Len(r) = n
            /\ \A i \in 1..Len(r) :
                  /\ r[i].id \in Backed
                  /\ r[i].total_investment = SponsorTotal(r[i].id)
                  /\ r[i].sponsorship_count = Cardinality(SponsorRows(r[i].id))
            /\ \A i, j \in 1..Len(r) : i # j => r[i].id # r[j].id
            /\ Len(r) >= 1 =>
                  \A id \in Backed : SponsorTotal(r[1].id) >= SponsorTotal(id)

----------------------------------------------------------------------------
(* C15: when no event falls inside the requested window and the store      *)
(* answers, analyze_financial_trends returns a successful result with an   *)
(* empty monthly_trends list and zero totals, not an error value.          *)

C15_EmptyWindowSucceeds ==
    (/\ resp.op = "analyze_financial_trends"
     /\ ~resp.fault
     /\ EventsInWindow(resp.now, resp.months) = {}) =>
        /\ ~IsError(resp.result)
        /\ resp.result.monthly_trends = <<>>
        /\ resp.result.total_events = 0
        /\ resp.result.total_budget = 0
        /\ resp.result.total_revenue = 0

----------------------------------------------------------------------------
\* the stored event has every column the summary converts: date, budget and
\* revenue, and the amounts of its completed sponsorships
SummaryColumnsPresent(e) ==
    /\ e.date # None
    /\ e.budget # None
    /\ e.revenue # None
    /\ \A s \in sponsorships : s.event_id = Some(e.id) => s.amount # None

(* C17: for an existing event, with the store answering,                   *)
(* get_event_financial_summary returns revenue_per_attendee =              *)
(* actual_revenue / footfall when footfall > 0, and a successful summary   *)
(* with revenue_per_attendee = 0, not an error document, when the event's  *)
(* footfall is 0 or absent (NULL).                                         *)

C17_RevenuePerAttendee ==
    (resp.op = "get_event_financial_summary" /\ ~resp.fault) =>
        \A e \in events :
            (e.id = resp.event_id /\ SummaryColumnsPresent(e)) =>
                /\ ~IsError(resp.result)
                /\ resp.result.revenue_per_attendee =
                      IF e.footfall # None /\ e.footfall[1] > 0
                      THEN RDiv(R(e.revenue[1]), R(e.footfall[1]))
                      ELSE R(0)

----------------------------------------------------------------------------
(* C19: with the store holding events and answering, generate_event_report *)
(* returns, for each format, a successful report: event_count is the       *)
(* number of selected events (all of them, or the one with the given id)   *)
(* and the events list has one entry per selected event, when every        *)
(* selected event has its date, budget and revenue and its sponsorships    *)
(* their amounts.                                                          *)

C19_EventReportSucceeds ==
    (/\ resp.op = "generate_event_report"
     /\ ~resp.fault
     /\ events # {}
     /\ \A e \in SelectedEvents(resp.event_id) : SummaryColumnsPresent(e)) =>
        /\ ~IsError(resp.result)
        /\ resp.result.event_count = Cardinality(SelectedEvents(resp.event_id))
        /\ {d.id : d \in resp.result.events}
              = {e.id : e \in SelectedEvents(resp.event_id)}
        /\ Cardinality(resp.result.events)
              = Cardinality(SelectedEvents(resp.event_id))

----------------------------------------------------------------------------
\* the calendar month of a date or a timestamp
InCalendarMonth(t, year, month) == t # None /\ t[1].y = year /\ t[1].m = month

\* no stored value makes a sum or a conversion of the monthly report raise
MonthlyColumnsPresent ==
    /\ \A e \in events : e.budget # None /\ e.revenue # None /\ e.footfall # None
    /\ \A s \in sponsorships : s.amount # None

(* C18: generate_monthly_report(year, month), month in 1..12, covers       *)
(* exactly the calendar month: it lists every event whose date, every      *)
(* sponsor whose created_at and every sponsorship whose created_at falls   *)
(* between the first instant of the month's first day and the last instant *)
(* of its last day, and nothing else; December rolls over to the next      *)
(* year.                                                                   *)

C18_CalendarMonth ==
    (/\ resp.op = "generate_monthly_report"
     /\ ~resp.fault
     /\ resp.month \in 1..12
     /\ MonthlyColumnsPresent) =>
        /\ ~IsError(resp.result)
        /\ {d.id : d \in resp.result.detailed_data.events}
              = {e.id : e \in {x \in events :
                                  InCalendarMonth(x.date, resp.year, resp.month)}}
        /\ {d.id : d \in resp.result.detailed_data.new_sponsors}
              = {sp.id : sp \in {x \in sponsors :
                                    InCalendarMonth(x.created_at, resp.year, resp.month)}}
        /\ {d.id : d \in resp.result.detailed_data.sponsorships}
              = {s.id : s \in {x \in sponsorships :
                                  InCalendarMonth(x.created_at, resp.year, resp.month)}}

----------------------------------------------------------------------------
\* the industries that belong to the bucket "Unknown": null, empty and the
\* string itself
InUnknownBucket(industry) == industry \in {None, Some(""), Some("Unknown")}

\* industry_analysis of generate_roi_analysis holds the sponsors of the
\* report with a null, empty or "Unknown" industry in the one bucket
\* "Unknown"
RoiAnalysisOneUnknown ==
    (resp.op = "generate_roi_analysis" /\ ~IsError(resp.result)) =>
        LET details == resp.result.sponsor_details
            unknown == {i \in 1..Len(details) : InUnknownBucket(details[i].industry)}
            buckets == resp.result.industry_analysis
        IN  /\ unknown # {} =>
                  /\ "Unknown" \in DOMAIN buckets
                  /\ buckets["Unknown"].sponsors = Cardinality(unknown)
            /\ \A i \in 1..Len(details) \ unknown :
                  details[i].industry[1] \in DOMAIN buckets

\* industry_breakdown of the reports route has at most one entry labelled
\* "Unknown", and it counts every sponsorship of the sponsors with a null,
\* empty or "Unknown" industry
BreakdownOneUnknown ==
    (resp.op = "reports" /\ resp.status = 200) =>
        LET b == resp.result.industry_breakdown
            unknown == {s \in JoinedRows : InUnknownBucket(SponsorOf(s).industry)}
        IN  /\ \A i, j \in 1..Len(b) :
                  (b[i].industry = "Unknown" /\ b[j].industry = "Unknown") => i = j
            /\ unknown # {} =>
                  \E i \in 1..Len(b) : /\ b[i].industry = "Unknown"
                                       /\ b[i].sponsor_count = Cardinality(unknown)

(* C12: the industry rollups, industry_analysis of generate_roi_analysis   *)
(* and industry_breakdown of the reports route, put every sponsor whose    *)
(* industry is null or empty into the one bucket "Unknown" that also holds *)
(* the sponsors whose industry is the string "Unknown"; the output never   *)
(* has two "Unknown" buckets and no sponsor is left out for lacking an     *)
(* industry.                                                               *)

C12_OneUnknownBucket == RoiAnalysisOneUnknown /\ BreakdownOneUnknown

----------------------------------------------------------------------------
\* a report document that is not itself an error and embeds none
FinancialSummaryWhole(doc) ==
    IsError(doc) \/
        /\ ~IsError(doc.trends)
        /\ ~IsError(doc.projections)
        /\ \A i \in 1..Len(doc.top_sponsors) : ~IsError(doc.top_sponsors[i])

SponsorReportWhole(doc) ==
    IsError(doc) \/
        \A d \in doc.sponsors :
            "roi_metrics" \in DOMAIN d => ~IsError(d.roi_metrics)

EventReportWhole(doc) ==
    IsError(doc) \/
        \A d \in doc.events :
            "financial_summary" \in DOMAIN d => ~IsError(d.financial_summary)

(* C14: a report is never partially failed: whenever an embedded           *)
(* computation (trends, top sponsors or projections in                     *)
(* generate_financial_summary, roi_metrics in generate_sponsor_report,     *)
(* financial_summary in generate_event_report) yields an error value, the  *)
(* enclosing report is an error-only document, not a document that mixes   *)
(* report fields with a nested error.                                      *)

C14_NoPartialFailure ==
    /\ resp.op = "generate_financial_summary" => FinancialSummaryWhole(resp.result)
    /\ resp.op = "generate_sponsor_report" => SponsorReportWhole(resp.result)
    /\ resp.op = "generate_event_report" => EventReportWhole(resp.result)

----------------------------------------------------------------------------
ReportFunctions ==
    {"generate_sponsor_report", "generate_event_report",
     "generate_financial_summary", "generate_roi_analysis",
     "generate_monthly_report"}

\* a document with an error description and nothing else
OnlyError(doc) == DOMAIN doc = {"error"}

\* a statement of the called report function fails: the store query
\* raises, the month is no month, or a record the report converts lacks
\* its date, amount, budget or footfall
StepFails ==
    \/ resp.fault
    \/ /\ resp.op = "generate_monthly_report"
       /\ \/ resp.month \notin 1..12
          \/ \E s \in sponsorships :
                /\ s.amount = None
                /\ InCalendarMonth(s.created_at, resp.year, resp.month)
                /\ s.created_at[1].d < 28
    \/ /\ resp.op = "generate_event_report"
       /\ \E e \in SelectedEvents(resp.event_id) : e.date = None
    \/ /\ resp.op = "generate_sponsor_report"
       /\ resp.format_type \in {"detailed", "roi_analysis"}
       /\ \E sp \in SelectedSponsors(resp.sponsor_id), s \in sponsorships :
             s.sponsor_id = Some(sp.id) /\ s.amount = None
    \/ /\ resp.op = "generate_roi_analysis"
       /\ \E sp \in sponsors :
             /\ CompletedOfSponsor(sp.id) # {}
             /\ \A s \in CompletedOfSponsor(sp.id) : s.amount = None
    \/ /\ resp.op = "generate_financial_summary"
       /\ \E e \in EventsInWindow(resp.now, resp.months) :
             e.budget = None \/ e.footfall = None

(* C13: every ReportGenerator report function (sponsor, event, financial   *)
(* summary, ROI analysis, monthly) returns a document for every argument   *)
(* and store state and lets no exception escape; when one of its steps     *)
(* fails (a month outside 1..12, a record with a null date or amount, the  *)
(* store not answering) the returned document holds an error description   *)
(* and no report field.                                                    *)

C13_ReportsNeverRaise ==
    resp.op \in ReportFunctions =>
        /\ "raised" \notin DOMAIN resp.result
        /\ IsError(resp.result) => OnlyError(resp.result)
        /\ ~IsError(resp.result) => "report_type" \in DOMAIN resp.result
        /\ StepFails => OnlyError(resp.result)

\* the monthly report asked for month 13, the store answering: the error
\* document of the function and nothing else
C13_WitnessMonth ==
    /\ resp.op = "generate_monthly_report"
    /\ resp.month = 13
    /\ ~resp.fault
    /\ resp.result = ErrMonthlyReport

----------------------------------------------------------------------------
(* Member accounts: backend/routes/auth.py over table fc_members.  A row   *)
(* keeps the columns the handlers branch on: id, email, role, is_active.   *)
(* An e-mail address is a small number; name and password only matter      *)
(* through the validations they pass or fail.                              *)

MaxMembers == 2

Emails == 1..MaxMembers

RequestRoles == {"admin", "finance", "viewer"}

\* FCMember.query.filter_by(role='admin', is_active=True).count()
admin_count == Cardinality({u \in members : u.role = "admin" /\ u.is_active})

\* the comparison without the last remaining admin
NoLastAdmin(count) == count <= 0

\* "if admin_count <= 1" of delete_user, update_user_role, toggle_user_status
LastAdmin(count) == count <= 1

MemberReply(req, code, msg) ==
    /\ resp' = req @@ [status |-> code, error |-> msg]
    /\ UNCHANGED <<store, transient>>

MemberWritten(req, code, rows) ==
    /\ members' = rows
    /\ resp' = req @@ [status |-> code]
    /\ UNCHANGED <<events, next_event_id, sponsors, next_sponsor_id,
                   sponsorships, next_sponsorship_id, next_member_id,
                   app_settings, transient>>

\* body: has is FALSE for an empty or missing body; required says that
\* name, email and password are present and not blank; email_ok, password_ok
\* and name_ok are the results of validate_email, validate_password and the
\* length test; role is None when the key "role" is absent.
register(body, fault, cap) ==
    LET req == [op |-> "register", role |-> body.role, fault |-> fault]
    IN
    IF ~body.has THEN MemberReply(req, 400, "Request body is required")
    ELSE IF ~body.required THEN MemberReply(req, 400, "field is required")
    ELSE IF ~body.email_ok THEN MemberReply(req, 400, "Invalid email format")
    ELSE IF ~body.password_ok THEN MemberReply(req, 400, "Invalid password")
    ELSE IF ~body.name_ok
         THEN MemberReply(req, 400, "Name must be between 2 and 120 characters")
    ELSE IF fault THEN MemberReply(req, 500, "Registration failed")
    ELSE IF \E u \in members : u.email = body.email
         THEN MemberReply(req, 400, "Email already registered")
    ELSE
        /\ next_member_id <= cap
        /\ members' = members \cup
              {[id |-> next_member_id, email |-> body.email,
                \* data.get("role", "finance")
                role |-> IF body.role = None THEN "finance" ELSE body.role[1],
                is_active |-> TRUE]}
        /\ next_member_id' = next_member_id + 1
        /\ resp' = req @@ [status |-> 201]
        /\ UNCHANGED <<events, next_event_id, sponsors, next_sponsor_id,
                       sponsorships, next_sponsorship_id, app_settings,
                       transient>>

\* caller is the row of current_user.  body: has; has_name, name_ok;
\* has_email, email, email_ok; has_password (both password keys present),
\* current_ok (check_password_hash), new_ok (validate_password).
update_profile(caller, body, fault) ==
    LET req == [op |-> "update_profile", caller |-> caller.id, fault |-> fault]
        changes == body.has_email /\ body.email # caller.email
    IN
    IF ~body.has THEN MemberReply(req, 400, "Request body is required")
    ELSE IF body.has_name /\ ~body.name_ok
         THEN MemberReply(req, 400, "Name must be between 2 and 120 characters")
    ELSE IF changes /\ ~body.email_ok
         THEN MemberReply(req, 400, "Invalid email format")
    ELSE IF changes /\ \E u \in members : u.email = body.email /\ u.id # caller.id
         THEN MemberReply(req, 400, "Email already registered by another user")
    ELSE IF body.has_password /\ ~body.current_ok
         THEN MemberReply(req, 401, "Current password is incorrect")
    ELSE IF body.has_password /\ ~body.new_ok
         THEN MemberReply(req, 400, "Invalid password")
    \* db.session.commit() raises
    ELSE IF fault THEN MemberReply(req, 500, "Profile update failed")
    ELSE MemberWritten(req, 200,
            (members \ {caller}) \cup
            {[caller EXCEPT !.email = IF changes THEN body.email ELSE @]})

\* get_or_404 raises inside the try block: the except clause answers 500
delete_user(caller, user_id, fault) ==
    LET req == [op |-> "delete_user", caller |-> caller.id,
                user_id |-> user_id, fault |-> fault]
        found == {u \in members : u.id = user_id}
    IN
    IF caller.role # "admin" THEN MemberReply(req, 403, "Admin access required")
    ELSE IF user_id = caller.id
         THEN MemberReply(req, 400, "Cannot delete your own account")
    ELSE IF fault \/ found = {} THEN MemberReply(req, 500, "Failed to delete user")
    ELSE LET user == CHOOSE u \in found : TRUE IN
         IF user.role = "admin" /\ LastAdmin(admin_count)
         THEN MemberReply(req, 400, "Cannot delete the last admin account")
         ELSE MemberWritten(req, 200,
                 (members \ {user}) \cup {[user EXCEPT !.is_active = FALSE]})

\* new_role is None when the body is empty or has no key "role"
update_user_role(caller, user_id, new_role, fault) ==
    LET req == [op |-> "update_user_role", caller |-> caller.id,
                user_id |-> user_id, role |-> new_role, fault |-> fault]
        found == {u \in members : u.id = user_id}
    IN
    IF caller.role # "admin" THEN MemberReply(req, 403, "Admin access required")
    ELSE IF new_role = None THEN MemberReply(req, 400, "Role is required")
    ELSE IF new_role[1] \notin {"admin", "finance"}
         THEN MemberReply(req, 400, "Invalid role. Must be 'admin' or 'finance'")
    ELSE IF fault \/ found = {}
         THEN MemberReply(req, 500, "Failed to update user role")
    ELSE LET user == CHOOSE u \in found : TRUE IN
         IF user.role = "admin" /\ new_role[1] # "admin" /\ LastAdmin(admin_count)
         THEN MemberReply(req, 400, "Cannot remove admin role from last admin")
         ELSE MemberWritten(req, 200,
                 (members \ {user}) \cup {[user EXCEPT !.role = new_role[1]]})

toggle_user_status(caller, user_id, fault) ==
    LET req == [op |-> "toggle_user_status", caller |-> caller.id,
                user_id |-> user_id, fault |-> fault]
        found == {u \in members : u.id = user_id}
    IN
    IF caller.role # "admin" THEN MemberReply(req, 403, "Admin access required")
    ELSE IF user_id = caller.id
         THEN MemberReply(req, 400, "Cannot deactivate your own account")
    ELSE IF fault \/ found = {}
         THEN MemberReply(req, 500, "Failed to toggle user status")
    ELSE LET user == CHOOSE u \in found : TRUE IN
         IF user.role = "admin" /\ user.is_active /\ LastAdmin(admin_count)
         THEN MemberReply(req, 400, "Cannot deactivate the last admin account")
         ELSE MemberWritten(req, 200,
                 (members \ {user}) \cup
                 {[user EXCEPT !.is_active = ~user.is_active]})

----------------------------------------------------------------------------
(* SpecMembers: an empty fc_members table written through the account      *)
(* routes.  The caller of a protected route is any stored member: a        *)
(* session outlives the deactivation of its account, because               *)
(* login_required only asks is_authenticated.                              *)

InitMembers ==
    /\ EmptyStore
    /\ resp = NoCall

Register ==
    \E body \in
         LET good == [has |-> TRUE, required |-> TRUE, email_ok |-> TRUE,
                      password_ok |-> TRUE, name_ok |-> TRUE, email |-> 1,
                      role |-> None]
         IN  {[good EXCEPT !.email = e, !.role = r]
                : e \in Emails, r \in {None} \cup {Some(x) : x \in RequestRoles}}
             \cup {[good EXCEPT !.has = FALSE], [good EXCEPT !.required = FALSE],
                   [good EXCEPT !.email_ok = FALSE],
                   [good EXCEPT !.password_ok = FALSE],
                   [good EXCEPT !.name_ok = FALSE]},
       fault \in BOOLEAN :
        /\ fault => body.email = 1 /\ body.role = None /\ body.has /\ body.required
                    /\ body.email_ok /\ body.password_ok /\ body.name_ok
        /\ register(body, fault, MaxMembers)

UpdateProfile ==
    \E caller \in members,
       body \in
         LET good == [has |-> TRUE, has_name |-> TRUE, name_ok |-> TRUE,
                      has_email |-> FALSE, email |-> 1, email_ok |-> TRUE,
                      has_password |-> FALSE, current_ok |-> TRUE,
                      new_ok |-> TRUE]
         IN  {[good EXCEPT !.has_email = TRUE, !.email = e] : e \in Emails}
             \cup {good, [good EXCEPT !.has = FALSE],
                   [good EXCEPT !.name_ok = FALSE],
                   [good EXCEPT !.has_email = TRUE, !.email = MaxMembers,
                                !.email_ok = FALSE],
                   [good EXCEPT !.has_password = TRUE],
                   [good EXCEPT !.has_password = TRUE, !.current_ok = FALSE],
                   [good EXCEPT !.has_password = TRUE, !.new_ok = FALSE]},
       fault \in BOOLEAN :
        /\ fault => body.has /\ ~body.has_email /\ ~body.has_password /\ body.name_ok
        /\ update_profile(caller, body, fault)

DeleteUser ==
    \E caller \in members, user_id \in 1..(MaxMembers + 1), fault \in BOOLEAN :
        /\ fault => user_id = 1
        /\ delete_user(caller, user_id, fault)

UpdateUserRole ==
    \E caller \in members, user_id \in 1..(MaxMembers + 1),
       new_role \in {None} \cup {Some(x) : x \in RequestRoles},
       fault \in BOOLEAN :
        /\ fault => user_id = 1 /\ new_role = Some("finance")
        /\ update_user_role(caller, user_id, new_role, fault)

ToggleUserStatus ==
    \E caller \in members, user_id \in 1..(MaxMembers + 1), fault \in BOOLEAN :
        /\ fault => user_id = 1
        /\ toggle_user_status(caller, user_id, fault)

NextMembers ==
    \/ Register
    \/ UpdateProfile
    \/ DeleteUser
    \/ UpdateUserRole
    \/ ToggleUserStatus

SpecMembers == InitMembers /\ [][NextMembers]_vars

----------------------------------------------------------------------------
(* C21: in every store state reached through register, update_user_role    *)
(* and update_profile each member's role is "admin" or "finance".          *)
(* register stores the role of the request body as it is, so the statement *)
(* fails in SpecMembers.                                                   *)
C21_RolesAdminOrFinance ==
    \A u \in members : u.role \in {"admin", "finance"}

----------------------------------------------------------------------------
(* C24: handled one at a time, delete_user, update_user_role and           *)
(* toggle_user_status never end the existence of an active admin; each     *)
(* answers 400 and changes nothing when its target is the last active      *)
(* admin about to be deactivated or demoted, and delete_user and           *)
(* toggle_user_status answer 400 and change nothing when the target is the *)
(* caller's own account.                                                   *)
ActiveAdmins == {u \in members : u.role = "admin" /\ u.is_active}

AdminOps == {"delete_user", "update_user_role", "toggle_user_status"}

\* the request just answered asks to deactivate or demote its target
Lowers(r) ==
    \/ r.op = "delete_user"
    \/ r.op = "toggle_user_status"
    \/ r.op = "update_user_role" /\ r.role = Some("finance")

C24_Step ==
    resp'.op \in AdminOps =>
        /\ ActiveAdmins # {} => ActiveAdmins' # {}
        /\ \A u \in ActiveAdmins :
              (ActiveAdmins = {u} /\ resp'.user_id = u.id /\ Lowers(resp')
               /\ resp'.status \notin {403, 500})
              => resp'.status = 400 /\ UNCHANGED store
        /\ (resp'.op # "update_user_role" /\ resp'.user_id = resp'.caller
            /\ resp'.status # 403)
              => resp'.status = 400 /\ UNCHANGED store

C24_ActiveAdminKept == [][C24_Step]_vars

\* the sole active admin was asked to be demoted and the request refused
C24_Witness ==
    /\ resp.op = "update_user_role"
    /\ resp.status = 400
    /\ resp.error = "Cannot remove admin role from last admin"
    /\ Cardinality(ActiveAdmins) = 1
    /\ Cardinality(members) >= 2

----------------------------------------------------------------------------
(* SpecAdminRace: delete_user, update_user_role and toggle_user_status     *)
(* served by concurrent workers.  Each request runs in a database session  *)
(* of its own: it loads the target row and counts the active admins        *)
(* (AdminRead), and later flushes the one attribute it assigned on the     *)
(* loaded object and commits (AdminWrite).  Nothing in auth.py or          *)
(* models.py locks the rows between the two steps.                         *)

MaxRequests == 2

Workers == 1..MaxRequests

\* The reply of the checks that precede the write, None when they pass.
\* req: [op, caller, user_id, role]; caller is the row of current_user.
AdminChecks(req, caller) ==
    LET found == {u \in members : u.id = req.user_id}
        user == CHOOSE u \in found : TRUE
    IN
    IF caller.role # "admin" THEN Some([status |-> 403])
    ELSE IF req.op # "update_user_role" /\ req.user_id = caller.id
         THEN Some([status |-> 400])
    ELSE IF req.op = "update_user_role"
            /\ (req.role = None \/ req.role[1] \notin {"admin", "finance"})
         THEN Some([status |-> 400])
    ELSE IF found = {} THEN Some([status |-> 500])
    ELSE IF /\ user.role = "admin"
            /\ \/ req.op = "delete_user"
               \/ req.op = "toggle_user_status" /\ user.is_active
               \/ req.op = "update_user_role" /\ req.role[1] # "admin"
            /\ LastAdmin(admin_count)
         THEN Some([status |-> 400])
    ELSE None

\* the UPDATE flushed at commit: the attribute assigned on the loaded object
AdminFlush(row, job) ==
    IF job.op = "delete_user" THEN [row EXCEPT !.is_active = FALSE]
    ELSE IF job.op = "toggle_user_status"
         THEN [row EXCEPT !.is_active = ~job.user.is_active]
    ELSE [row EXCEPT !.role = job.role[1]]

InitAdminRace ==
    /\ events = {} /\ next_event_id = 1
    /\ sponsors = {} /\ next_sponsor_id = 1
    /\ sponsorships = {} /\ next_sponsorship_id = 1
    /\ \E n \in 1..MaxRequests, others \in SUBSET {"finance"} :
          /\ members =
               {[id |-> i, email |-> i, role |-> "admin", is_active |-> TRUE]
                  : i \in 1..n}
               \cup {[id |-> n + 1, email |-> n + 1, role |-> r,
                      is_active |-> TRUE] : r \in others}
          /\ next_member_id = Cardinality(members) + 1
    /\ app_settings = InitialSettings
    /\ requests = <<>>
    /\ clock = 0
    /\ served = <<>>
    /\ inflight = <<>>
    /\ resp = NoCall

AdminRead ==
    \E w \in Workers \ DOMAIN inflight, caller \in members,
       op \in {"delete_user", "update_user_role", "toggle_user_status"},
       user_id \in 1..next_member_id,
       role \in {None, Some("finance"), Some("admin"), Some("viewer")} :
        LET req == [op |-> op, caller |-> caller.id, user_id |-> user_id,
                    role |-> role]
            reply == AdminChecks(req, caller)
        IN  /\ op # "update_user_role" => role = None
            /\ IF reply # None
               THEN /\ resp' = [op |-> op] @@ reply[1]
                    /\ UNCHANGED inflight
               ELSE /\ inflight' = inflight @@
                          (w :> [op |-> op, user_id |-> user_id, role |-> role,
                                 user |-> CHOOSE u \in members : u.id = user_id])
                    /\ UNCHANGED resp
            /\ UNCHANGED <<store, requests, clock, served>>

AdminWrite ==
    \E w \in DOMAIN inflight :
        LET job == inflight[w]
        IN  /\ members' = {IF u.id = job.user_id THEN AdminFlush(u, job) ELSE u
                             : u \in members}
            /\ inflight' = [v \in DOMAIN inflight \ {w} |-> inflight[v]]
            /\ resp' = [op |-> job.op, status |-> 200]
            /\ UNCHANGED <<events, next_event_id, sponsors, next_sponsor_id,
                           sponsorships, next_sponsorship_id, next_member_id,
                           app_settings, requests, clock, served>>

NextAdminRace ==
    \/ AdminRead
    \/ AdminWrite

SpecAdminRace == InitAdminRace /\ [][NextAdminRace]_vars

----------------------------------------------------------------------------
(* C28: under any interleaving of concurrent delete_user,                  *)
(* toggle_user_status and update_user_role requests by admins, started     *)
(* with at least one active admin, the store never holds zero active       *)
(* admins.  Two admins who deactivate each other both read a count of two  *)
(* and both write, so the statement fails in SpecAdminRace.                *)
C28_NeverZeroActiveAdmins == ActiveAdmins # {}

----------------------------------------------------------------------------
(* System settings: backend/routes/settings.py over the module-level dict  *)
(* app_settings.  A request body is the sequence of its (key, value)       *)
(* pairs in document order, the order in which dict.items() yields them.   *)

MaxBodyKeys == 2

JBool(x) == [t |-> "bool", b |-> x, n |-> 0, s |-> ""]
JInt(i) == [t |-> "int", b |-> FALSE, n |-> i, s |-> ""]
JStr(x) == [t |-> "str", b |-> FALSE, n |-> 0, s |-> x]
JNull == [t |-> "null", b |-> FALSE, n |-> 0, s |-> ""]

allowed_settings == DOMAIN InitialSettings

IntegerKeys == {"session_timeout", "max_login_attempts", "lockout_duration",
                "api_rate_limit", "api_rate_window"}

FlagKeys == {"allow_registration", "maintenance_mode",
             "require_email_verification", "allow_password_reset"}

\* the strings int() parses, with their values
NumericStrings == [x \in {"45"} |-> 45]

\* int(value): None stands for ValueError or TypeError
PyInt(value) ==
    IF value.t = "int" THEN Some(value.n)
    ELSE IF value.t = "bool" THEN Some(IF value.b THEN 1 ELSE 0)
    ELSE IF value.t = "str" /\ value.s \in DOMAIN NumericStrings
         THEN Some(NumericStrings[value.s])
    ELSE None

\* the for loop of update_settings over the items not yet visited: a key
\* is written as soon as it has passed its own validation
RECURSIVE UpdateLoop(_, _)
UpdateLoop(settings, items) ==
    IF items = <<>> THEN [settings |-> settings, status |-> 200]
    ELSE LET key == items[1][1]
             value == items[1][2]
             stop == [settings |-> settings, status |-> 400]
         IN
         IF key \notin allowed_settings THEN UpdateLoop(settings, Tail(items))
         ELSE IF key = "default_role" /\ value \notin {JStr("admin"), JStr("finance")}
              THEN stop
         ELSE IF key \in IntegerKeys /\ PyInt(value) = None THEN stop
         ELSE IF key \in IntegerKeys /\ PyInt(value)[1] < 0 THEN stop
         ELSE IF key \in FlagKeys /\ value.t # "bool" THEN stop
         ELSE UpdateLoop([settings EXCEPT ![key] =
                             IF key \in IntegerKeys THEN JInt(PyInt(value)[1])
                             ELSE value],
                         Tail(items))

\* the for loop of restore_settings
RECURSIVE RestoreLoop(_, _)
RestoreLoop(settings, items) ==
    IF items = <<>> THEN settings
    ELSE RestoreLoop(IF items[1][1] \in DOMAIN settings
                     THEN [settings EXCEPT ![items[1][1]] = items[1][2]]
                     ELSE settings,
                     Tail(items))

SettingsReply(req, code, settings) ==
    /\ app_settings' = settings
    /\ resp' = req @@ [status |-> code]
    /\ UNCHANGED <<events, next_event_id, sponsors, next_sponsor_id,
                   sponsorships, next_sponsorship_id, members, next_member_id,
                   transient>>

update_settings(role, items) ==
    LET req == [op |-> "update_settings", role |-> role]
        done == UpdateLoop(app_settings, items)
    IN
    IF role # "admin" THEN SettingsReply(req, 403, app_settings)
    ELSE IF items = <<>> THEN SettingsReply(req, 400, app_settings)
    ELSE SettingsReply(req, done.status, done.settings)

\* has_settings: the body holds the key "settings"; is_dict: its value is a
\* JSON object, whose pairs are items
restore_settings(role, has_settings, is_dict, items) ==
    LET req == [op |-> "restore_settings", role |-> role]
    IN
    IF role # "admin" THEN SettingsReply(req, 403, app_settings)
    ELSE IF ~has_settings \/ ~is_dict THEN SettingsReply(req, 400, app_settings)
    ELSE SettingsReply(req, 200, RestoreLoop(app_settings, items))

reset_settings(role) ==
    LET req == [op |-> "reset_settings", role |-> role]
    IN
    IF role # "admin" THEN SettingsReply(req, 403, app_settings)
    ELSE SettingsReply(req, 200,
            [k \in DOMAIN app_settings |->
                IF k \in DOMAIN InitialSettings THEN InitialSettings[k]
                ELSE app_settings[k]])

----------------------------------------------------------------------------
(* SpecSettings: the dict as the module defines it, written through the    *)
(* three routes.  Requests name one key of each kind and a key the         *)
(* application does not know.                                              *)

\* the JSON objects of at most MaxBodyKeys pairs with distinct keys
SettingsBodies ==
    LET keys == {"default_role", "session_timeout", "maintenance_mode", "theme"}
        values == {JStr("admin"), JStr("viewer"), JInt(-1), JStr("45"),
                   JBool(TRUE), JNull}
        pairs == keys \X values
    IN  UNION {{b \in [1..n -> pairs] :
                  \A i, j \in 1..n : i # j => b[i][1] # b[j][1]}
               : n \in 0..MaxBodyKeys}

InitSettings ==
    /\ EmptyStore
    /\ resp = NoCall

UpdateSettings ==
    \E role \in {"admin", "finance"}, items \in SettingsBodies :
        /\ role = "finance" => items = <<>>
        /\ update_settings(role, items)

RestoreSettings ==
    \E role \in {"admin", "finance"}, has_settings \in BOOLEAN,
       is_dict \in BOOLEAN, items \in SettingsBodies :
        /\ (role = "finance" \/ ~has_settings \/ ~is_dict) => items = <<>>
        /\ ~has_settings => ~is_dict
        /\ restore_settings(role, has_settings, is_dict, items)

ResetSettings ==
    \E role \in {"admin", "finance"} : reset_settings(role)

NextSettings ==
    \/ UpdateSettings
    \/ RestoreSettings
    \/ ResetSettings

SpecSettings == InitSettings /\ [][NextSettings]_vars

----------------------------------------------------------------------------
(* C26: every settings dict reached through update_settings,               *)
(* restore_settings and reset_settings has exactly the ten initial keys,   *)
(* default_role "admin" or "finance", the five integer settings            *)
(* non-negative integers and the four flags booleans.  restore_settings    *)
(* copies the values of the backup unvalidated, so the statement fails in  *)
(* SpecSettings.                                                           *)
C26_SettingsValid ==
    /\ DOMAIN app_settings = DOMAIN InitialSettings
    /\ app_settings.default_role \in {JStr("admin"), JStr("finance")}
    /\ \A k \in IntegerKeys : app_settings[k].t = "int" /\ app_settings[k].n >= 0
    /\ \A k \in FlagKeys : app_settings[k].t = "bool"

----------------------------------------------------------------------------
(* Rate limiting: rate_limit of backend/utils/auth_middleware.py.  The     *)
(* admitted times are kept in rate_limit._requests, an attribute of the    *)
(* function rate_limit itself: one dict for every handler the decorator    *)
(* wraps, keyed by the client only.                                        *)

MaxClock == 3

\* decorated_function of a handler wrapped in
\* rate_limit(max_requests, window_seconds), called by client at time clock
rate_limit(handler, max_requests, window_seconds, client_id) ==
    LET now == clock
        window_start == now - window_seconds
        before == IF client_id \in DOMAIN requests THEN requests[client_id]
                  ELSE <<>>
        kept == SelectSeq(before, LAMBDA req_time : req_time > window_start)
        req == [op |-> "rate_limit", handler |-> handler, client |-> client_id]
        put(list) == [c \in DOMAIN requests \cup {client_id} |->
                        IF c = client_id THEN list ELSE requests[c]]
    IN
    IF Len(kept) >= max_requests
    THEN /\ requests' = put(kept)
         /\ resp' = req @@ [status |-> 429]
         /\ UNCHANGED <<store, clock, served, inflight>>
    ELSE /\ requests' = put(Append(kept, now))
         \* return f(*args, **kwargs)
         /\ LET run == [handler |-> handler, client |-> client_id, time |-> now]
            IN  served' = [r \in DOMAIN served \cup {run} |->
                             IF r = run
                             THEN (IF run \in DOMAIN served THEN served[run] ELSE 0) + 1
                             ELSE served[r]]
         /\ resp' = req @@ [status |-> 200]
         /\ UNCHANGED <<store, clock, inflight>>

----------------------------------------------------------------------------
(* SpecRateLimit: two handlers of one process, "list" wrapped in           *)
(* rate_limit(2, 3) and "ping" wrapped in rate_limit(1, 1), called by two  *)
(* clients while the clock advances.                                       *)

LimitedHandlers ==
    {[name |-> "list", max_requests |-> 2, window_seconds |-> 3],
     [name |-> "ping", max_requests |-> 1, window_seconds |-> 1]}

Clients == {"10.0.0.1", "user_1"}

InitRateLimit ==
    /\ EmptyStore
    /\ resp = NoCall

Tick ==
    /\ clock < MaxClock
    /\ clock' = clock + 1
    /\ UNCHANGED <<store, requests, served, inflight, resp>>

CallLimited ==
    \E h \in LimitedHandlers, client_id \in Clients :
        rate_limit(h.name, h.max_requests, h.window_seconds, client_id)

NextRateLimit ==
    \/ Tick
    \/ CallLimited

SpecRateLimit == InitRateLimit /\ [][NextRateLimit]_vars

----------------------------------------------------------------------------
(* C25: for a handler wrapped in rate_limit(max_requests, window_seconds), *)
(* every client and every time t, at most max_requests of that client's    *)
(* admitted requests to the handler have a timestamp in                    *)
(* (t - window_seconds, t].  A call to another wrapped handler with a      *)
(* shorter window prunes the shared list, so the statement fails in        *)
(* SpecRateLimit.                                                          *)
Admitted(h, client_id, t) ==
    LET runs == {r \in DOMAIN served :
                    /\ r.handler = h.name
                    /\ r.client = client_id
                    /\ r.time > t - h.window_seconds
                    /\ r.time <= t}
    IN  SumFn([r \in runs |-> served[r]])

C25_WindowBound ==
    \A h \in LimitedHandlers, client_id \in Clients, t \in 0..MaxClock :
        Admitted(h, client_id, t) <= h.max_requests

----------------------------------------------------------------------------
(* Sponsor and event maintenance: backend/routes/sponsors.py and the PUT   *)
(* and DELETE routes of backend/routes/events.py.  A sponsor row keeps id  *)
(* and industry, the columns the reports read.                             *)

CrudReply(req, code) ==
    /\ resp' = req @@ [status |-> code]
    /\ UNCHANGED <<store, transient>>

\* data.get(key, "").strip() or None: raw is None when the key is absent
StripOrNone(raw) ==
    IF raw = None \/ raw[1] \in {"", " "} THEN None ELSE raw

\* body: has (not empty); name_ok: "name" present and not blank; email_ok and
\* phone_ok: absent or accepted by validate_email / validate_phone; industry
\* is the raw value of the key, None when absent.
add_sponsor(role, body, fault, cap) ==
    LET req == [op |-> "add_sponsor", role |-> role]
    IN
    IF role \notin AllowedRoles THEN CrudReply(req, 403)
    ELSE IF ~body.has \/ ~body.name_ok \/ ~body.email_ok \/ ~body.phone_ok
         THEN CrudReply(req, 400)
    ELSE IF fault THEN CrudReply(req, 500)
    ELSE
        /\ next_sponsor_id <= cap
        /\ sponsors' = sponsors \cup
              {[id |-> next_sponsor_id, industry |-> StripOrNone(body.industry)]}
        /\ next_sponsor_id' = next_sponsor_id + 1
        /\ resp' = req @@ [status |-> 201]
        /\ UNCHANGED <<events, next_event_id, sponsorships, next_sponsorship_id,
                       members, next_member_id, app_settings, transient>>

\* body as for add_sponsor, has_name saying whether the key "name" is there
update_sponsor(role, sponsor_id, body, fault) ==
    LET req == [op |-> "update_sponsor", role |-> role, sponsor_id |-> sponsor_id]
        found == {sp \in sponsors : sp.id = sponsor_id}
    IN
    IF role \notin AllowedRoles THEN CrudReply(req, 403)
    ELSE IF ~body.has THEN CrudReply(req, 400)
    ELSE IF fault \/ found = {} THEN CrudReply(req, 500)
    ELSE IF ~body.email_ok \/ ~body.phone_ok THEN CrudReply(req, 400)
    ELSE IF body.has_name /\ ~body.name_ok THEN CrudReply(req, 400)
    ELSE
        /\ sponsors' = (sponsors \ found) \cup
              {[sp EXCEPT !.industry = StripOrNone(body.industry)] : sp \in found}
        /\ resp' = req @@ [status |-> 200]
        /\ UNCHANGED <<events, next_event_id, next_sponsor_id, sponsorships,
                       next_sponsorship_id, members, next_member_id,
                       app_settings, transient>>

\* db.session.delete(parent) with the relationships of models.py, which
\* name no cascade: the unit of work sets the nullable foreign key of
\* every child row to NULL before it deletes the parent
Orphaned(column, id) ==
    {IF s[column] = Some(id) THEN [s EXCEPT ![column] = None] ELSE s
       : s \in sponsorships}

delete_sponsor(role, sponsor_id, fault) ==
    LET req == [op |-> "delete_sponsor", role |-> role, sponsor_id |-> sponsor_id]
        found == {sp \in sponsors : sp.id = sponsor_id}
    IN
    IF role \notin AllowedRoles THEN CrudReply(req, 403)
    ELSE IF fault \/ found = {} THEN CrudReply(req, 500)
    ELSE
        /\ sponsors' = sponsors \ found
        /\ sponsorships' = Orphaned("sponsor_id", sponsor_id)
        /\ resp' = req @@ [status |-> 200]
        /\ UNCHANGED <<events, next_event_id, next_sponsor_id,
                       next_sponsorship_id, members, next_member_id,
                       app_settings, transient>>

\* body: has; for each of date, budget, footfall, revenue a flag has_<key>
\* and the value, None when the validation of the key rejects it; has_name
\* and name_ok.  An attribute assigned before a later validation fails is
\* never committed.
update_event(role, event_id, body, fault) ==
    LET req == [op |-> "update_event", role |-> role, event_id |-> event_id]
        found == {e \in events : e.id = event_id}
    IN
    IF role \notin AllowedRoles THEN CrudReply(req, 403)
    ELSE IF ~body.has THEN CrudReply(req, 400)
    ELSE IF fault \/ found = {} THEN CrudReply(req, 500)
    ELSE IF body.has_date /\ body.date = None THEN CrudReply(req, 400)
    ELSE IF body.has_budget /\ ~validate_positive_number(body.budget)
         THEN CrudReply(req, 400)
    ELSE IF body.has_footfall /\ body.footfall = None THEN CrudReply(req, 400)
    ELSE IF body.has_revenue /\ ~validate_positive_number(body.revenue)
         THEN CrudReply(req, 400)
    ELSE IF body.has_name /\ ~body.name_ok THEN CrudReply(req, 400)
    ELSE
        /\ events' = (events \ found) \cup
              {[e EXCEPT !.date = IF body.has_date THEN body.date ELSE @,
                         !.budget = IF body.has_budget THEN body.budget ELSE @,
                         !.footfall = IF body.has_footfall THEN body.footfall ELSE @,
                         !.revenue = IF body.has_revenue THEN body.revenue ELSE @]
                 : e \in found}
        /\ resp' = req @@ [status |-> 200]
        /\ UNCHANGED <<next_event_id, sponsors, next_sponsor_id, sponsorships,
                       next_sponsorship_id, members, next_member_id,
                       app_settings, transient>>

delete_event(role, event_id, fault) ==
    LET req == [op |-> "delete_event", role |-> role, event_id |-> event_id]
        found == {e \in events : e.id = event_id}
    IN
    IF role \notin AllowedRoles THEN CrudReply(req, 403)
    ELSE IF fault \/ found = {} THEN CrudReply(req, 500)
    ELSE
        /\ events' = events \ found
        /\ sponsorships' = Orphaned("event_id", event_id)
        /\ resp' = req @@ [status |-> 200]
        /\ UNCHANGED <<next_event_id, sponsors, next_sponsor_id,
                       next_sponsorship_id, members, next_member_id,
                       app_settings, transient>>

----------------------------------------------------------------------------
(* SpecCrud: empty tables written through the create, update and delete    *)
(* routes of sponsors, events and sponsorships by callers of every role.   *)

MaxCrudRows == 1

CrudIds == 1..(MaxCrudRows + 1)

InitCrud ==
    /\ EmptyStore
    /\ resp = NoCall

CrudAddSponsor ==
    \E role \in {"finance", "viewer"}, fault \in BOOLEAN,
       body \in LET good == [has |-> TRUE, has_name |-> TRUE, name_ok |-> TRUE,
                             email_ok |-> TRUE, phone_ok |-> TRUE,
                             industry |-> Some("Tech")]
                IN  {good, [good EXCEPT !.has = FALSE],
                     [good EXCEPT !.name_ok = FALSE]} :
        /\ fault => body = [has |-> TRUE, has_name |-> TRUE, name_ok |-> TRUE,
                            email_ok |-> TRUE, phone_ok |-> TRUE,
                            industry |-> Some("Tech")] /\ role = "finance"
        /\ add_sponsor(role, body, fault, MaxCrudRows)

CrudUpdateSponsor ==
    \E role \in {"finance", "viewer"}, sponsor_id \in CrudIds, fault \in BOOLEAN,
       body \in LET good == [has |-> TRUE, has_name |-> FALSE, name_ok |-> TRUE,
                             email_ok |-> TRUE, phone_ok |-> TRUE,
                             industry |-> Some(" ")]
                IN  {good, [good EXCEPT !.has = FALSE],
                     [good EXCEPT !.phone_ok = FALSE]} :
        /\ fault => body.has /\ body.phone_ok /\ ~body.has_name
                    /\ role = "finance"
                    /\ sponsor_id = 1
        /\ update_sponsor(role, sponsor_id, body, fault)

CrudDeleteSponsor ==
    \E role \in CallerRoles, sponsor_id \in CrudIds, fault \in BOOLEAN :
        /\ role = "admin" => ~fault /\ sponsor_id = 1
        /\ fault => role = "finance" /\ sponsor_id = 1
        /\ delete_sponsor(role, sponsor_id, fault)

CrudAddEvent ==
    \E role \in {"finance", "viewer"}, name_ok \in BOOLEAN :
        /\ next_event_id <= MaxCrudRows
        /\ add_event(role, name_ok, Some(Jan20), Some(1000), None, None,
                     MaxCrudRows)

CrudUpdateEvent ==
    \E role \in {"finance", "viewer"}, event_id \in CrudIds, fault \in BOOLEAN,
       body \in LET good == [has |-> TRUE, has_date |-> FALSE, date |-> None,
                             has_budget |-> FALSE, budget |-> None,
                             has_footfall |-> FALSE, footfall |-> None,
                             has_revenue |-> TRUE, revenue |-> Some(0),
                             has_name |-> FALSE, name_ok |-> TRUE]
                IN  {good, [good EXCEPT !.has = FALSE],
                     [good EXCEPT !.has_budget = TRUE, !.budget = Some(-1)]} :
        /\ fault => body.has /\ body.revenue # None /\ ~body.has_date
                    /\ ~body.has_budget /\ ~body.has_footfall /\ ~body.has_name
                    /\ role = "finance" /\ event_id = 1
        /\ update_event(role, event_id, body, fault)

CrudDeleteEvent ==
    \E role \in CallerRoles, event_id \in CrudIds, fault \in BOOLEAN :
        /\ role = "admin" => ~fault /\ event_id = 1
        /\ fault => role = "finance" /\ event_id = 1
        /\ delete_event(role, event_id, fault)

CrudAddSponsorship ==
    \E role \in {"finance", "viewer"}, sponsor_id \in CrudIds, event_id \in CrudIds :
        add_sponsorship(role, Some(sponsor_id), Some(event_id), TRUE, Some(500),
                        None, None, TodayNoon, FALSE, MaxCrudRows)

CrudUpdateSponsorship ==
    \E role \in {"finance", "viewer"}, sponsorship_id \in CrudIds :
        update_sponsorship(role, sponsorship_id, FALSE, None, TRUE,
                           "negotiating", FALSE, 0, FALSE)

CrudDeleteSponsorship ==
    \E role \in {"finance", "viewer"}, sponsorship_id \in CrudIds :
        delete_sponsorship(role, sponsorship_id, FALSE)

NextCrud ==
    \/ CrudAddSponsor
    \/ CrudUpdateSponsor
    \/ CrudDeleteSponsor
    \/ CrudAddEvent
    \/ CrudUpdateEvent
    \/ CrudDeleteEvent
    \/ CrudAddSponsorship
    \/ CrudUpdateSponsorship
    \/ CrudDeleteSponsorship

SpecCrud == InitCrud /\ [][NextCrud]_vars

----------------------------------------------------------------------------
(* C22: a create, update or delete request on sponsors, events or          *)
(* sponsorships whose caller's role is neither admin nor finance is        *)
(* answered 403 and leaves the store as it was.                            *)
CudOps ==
    {"add_sponsor", "update_sponsor", "delete_sponsor",
     "add_event", "update_event", "delete_event",
     "add_sponsorship", "update_sponsorship", "delete_sponsorship"}

C22_Step ==
    (resp'.op \in CudOps /\ resp'.role \notin {"admin", "finance"})
        => resp'.status = 403 /\ UNCHANGED store

C22_OtherRolesDenied == [][C22_Step]_vars

\* a viewer asked to delete a stored sponsor that has a sponsorship
C22_Witness ==
    /\ resp.op = "delete_sponsor"
    /\ resp.role = "viewer"
    /\ resp.status = 403
    /\ \E sp \in sponsors : sp.id = resp.sponsor_id
    /\ \E s \in sponsorships : s.sponsor_id = Some(resp.sponsor_id)

----------------------------------------------------------------------------
(* C30: after any sequence of create, update and delete requests on        *)
(* sponsors, events and sponsorships, the sponsor_id and the event_id of   *)
(* every stored sponsorship name a stored sponsor and a stored event.      *)
(* Deleting a sponsor or an event that has sponsorships leaves them with a *)
(* NULL foreign key, so the statement fails in SpecCrud.                   *)
C30_ReferencesResolve ==
    \A s \in sponsorships :
        /\ s.sponsor_id # None
        /\ s.event_id # None
        /\ \E sp \in sponsors : sp.id = s.sponsor_id[1]
        /\ \E e \in events : e.id = s.event_id[1]

----------------------------------------------------------------------------
(* SpecAddRace: add_sponsorship served by concurrent workers.  A request   *)
(* validates its body, looks up the sponsor, the event and an existing     *)
(* sponsorship of the pair (AddLookup) and later inserts its row and       *)
(* commits (AddInsert).  Table sponsorships has no unique constraint on    *)
(* (sponsor_id, event_id), so the insert of a second row of a pair is      *)
(* accepted by the database.                                               *)

\* The reply of add_sponsorship before the insert, None when every check
\* passes.  req: [role, sponsor_id, event_id, has_amount, amount, status].
AddChecks(req) ==
    LET st == IF req.status = None THEN "negotiating" ELSE req.status[1]
    IN
    IF req.role \notin AllowedRoles THEN Some(403)
    ELSE IF req.sponsor_id = None \/ req.event_id = None THEN Some(400)
    ELSE IF req.has_amount /\ ~validate_positive_number(req.amount) THEN Some(400)
    ELSE IF ~validate_status(st) THEN Some(400)
    ELSE IF \A sp \in sponsors : sp.id # req.sponsor_id[1] THEN Some(404)
    ELSE IF \A e \in events : e.id # req.event_id[1] THEN Some(404)
    ELSE IF Existing(req.sponsor_id[1], req.event_id[1]) # {} THEN Some(400)
    ELSE IF ~req.has_amount THEN Some(500)
    ELSE None

InitAddRace ==
    /\ events = RouteEvents
    /\ next_event_id = 3
    /\ sponsors = RankSponsors
    /\ sponsorships = {}
    /\ next_sponsorship_id = 1
    /\ Elsewhere
    /\ resp = NoCall

AddLookup ==
    \E w \in Workers \ DOMAIN inflight, role \in CallerRoles,
       sponsor_id \in {None, Some(1), Some(2), Some(3)},
       event_id \in {None, Some(1), Some(3)},
       amount \in {None, Some(500), Some(-1)},
       status \in {None, Some("paid"), Some("completed")} :
        LET req == [role |-> role, sponsor_id |-> sponsor_id,
                    event_id |-> event_id, has_amount |-> amount # None,
                    amount |-> amount, status |-> status]
            reply == AddChecks(req)
        IN  \* one field spoilt at a time
            /\ Cardinality({x \in {1, 2, 3, 4, 5} :
                              \/ x = 1 /\ role # "finance"
                              \/ x = 2 /\ sponsor_id \in {None, Some(3)}
                              \/ x = 3 /\ event_id # Some(1)
                              \/ x = 4 /\ amount # Some(500)
                              \/ x = 5 /\ status = Some("completed")}) <= 1
            /\ next_sponsorship_id + Cardinality(DOMAIN inflight) <= MaxRequests
            /\ IF reply # None
               THEN /\ resp' = [op |-> "add_sponsorship", role |-> role,
                                status |-> reply[1]]
                    /\ UNCHANGED inflight
               ELSE /\ inflight' = inflight @@
                          (w :> [sponsor_id |-> sponsor_id, event_id |-> event_id,
                                 amount |-> amount,
                                 status |-> IF status = None THEN "negotiating"
                                            ELSE status[1]])
                    /\ UNCHANGED resp
            /\ UNCHANGED <<store, requests, clock, served>>

AddInsert ==
    \E w \in DOMAIN inflight :
        LET row == inflight[w]
        IN  /\ sponsorships' = sponsorships \cup
                  {row @@ [id |-> next_sponsorship_id, roi |-> Some(0),
                           created_at |-> Some(TodayNoon)]}
            /\ next_sponsorship_id' = next_sponsorship_id + 1
            /\ inflight' = [v \in DOMAIN inflight \ {w} |-> inflight[v]]
            /\ resp' = [op |-> "add_sponsorship", role |-> "finance",
                        status |-> 201]
            /\ UNCHANGED <<events, next_event_id, sponsors, next_sponsor_id,
                           members, next_member_id, app_settings, requests,
                           clock, served>>

NextAddRace ==
    \/ AddLookup
    \/ AddInsert

SpecAddRace == InitAddRace /\ [][NextAddRace]_vars

----------------------------------------------------------------------------
(* C27: under any interleaving of concurrent add_sponsorship requests at   *)
(* most one sponsorship is stored per (sponsor_id, event_id) pair.  Two    *)
(* requests for one pair both find no existing row and both insert, so the *)
(* statement fails in SpecAddRace.                                         *)
C27_OnePerPairConcurrently ==
    \A a, b \in sponsorships :
        (a.sponsor_id = b.sponsor_id /\ a.event_id = b.event_id) => a = b

----------------------------------------------------------------------------
(* SpecCompleted: the sponsorship routes of SpecSponsorships together with *)
(* the three aggregations of FinanceCalculator that select the             *)
(* sponsorships whose status is 'completed'.                               *)

\* an aggregation that clears the rows it has read
calculate_sponsor_roi_consuming(sponsor_id, fault) ==
    /\ resp' = [op |-> "calculate_sponsor_roi", sponsor_id |-> sponsor_id,
                fault |-> fault, result |-> SponsorRoi(sponsor_id, fault)]
    /\ sponsorships' = {x \in sponsorships : x.sponsor_id # Some(sponsor_id)}
    /\ UNCHANGED <<events, next_event_id, sponsors, next_sponsorship_id,
                   beside>>

calculate_sponsor_roi(sponsor_id, fault) ==
    /\ resp' = [op |-> "calculate_sponsor_roi", sponsor_id |-> sponsor_id,
                fault |-> fault, result |-> SponsorRoi(sponsor_id, fault)]
    /\ UNCHANGED <<store, transient>>

CalculateSponsorRoi ==
    \E sponsor_id \in 1..3 : calculate_sponsor_roi(sponsor_id, FALSE)

SummariseRouteEvent ==
    \E event_id \in 1..3 : get_event_financial_summary(event_id, FALSE)

NextCompleted ==
    \/ NextSponsorships
    \/ CalculateSponsorRoi
    \/ SummariseRouteEvent

SpecCompleted == InitSponsorships /\ [][NextCompleted]_vars

----------------------------------------------------------------------------
(* C29: in every store state reached through the sponsorship routes no     *)
(* sponsorship has status 'completed'; hence every list                    *)
(* get_top_performing_sponsors returns is empty, every document            *)
(* calculate_sponsor_roi returns has total_investment 0 and                *)
(* sponsorship_count 0, and every summary get_event_financial_summary      *)
(* returns for a stored event has total_sponsorship 0 and sponsor_count 0. *)
C29_NothingCompleted ==
    /\ \A s \in sponsorships : s.status # "completed"
    /\ resp.op = "get_top_performing_sponsors" => resp.result = <<>>
    /\ resp.op = "calculate_sponsor_roi"
          => /\ ~IsError(resp.result)
             /\ resp.result.total_investment = 0
             /\ resp.result.sponsorship_count = 0
    /\ (resp.op = "get_event_financial_summary" /\ ~IsError(resp.result))
          => /\ resp.result.total_sponsorship = 0
             /\ resp.result.sponsor_count = 0

\* the ROI of a sponsor who has a paid sponsorship of 500 was computed
C29_Witness ==
    /\ resp.op = "calculate_sponsor_roi"
    /\ ~IsError(resp.result)
    /\ resp.result.sponsorship_count = 0
    /\ \E s \in sponsorships :
          /\ s.sponsor_id = Some(resp.sponsor_id)
          /\ s.status = "paid"
          /\ s.amount = Some(500)

----------------------------------------------------------------------------
(* SpecFrame: the stores of SpecReports with two member accounts and the   *)
(* settings dict, read by every function of FinanceCalculator and          *)
(* ReportGenerator and by every analytics endpoint.                        *)

InitFrame ==
    /\ \E st \in ReportStores :
          /\ events = st.events
          /\ sponsors = st.sponsors
          /\ sponsorships = st.sponsorships
    /\ next_event_id = Cardinality(events) + 1
    /\ next_sponsor_id = Cardinality(sponsors) + 1
    /\ next_sponsorship_id = Cardinality(sponsorships) + 1
    /\ members = {[id |-> 1, email |-> 1, role |-> "admin", is_active |-> TRUE],
                  [id |-> 2, email |-> 2, role |-> "finance", is_active |-> FALSE]}
    /\ next_member_id = 3
    /\ app_settings = InitialSettings
    /\ requests = <<>>
    /\ clock = 0
    /\ served = <<>>
    /\ inflight = <<>>
    /\ resp = NoCall

FrameCalculator ==
    \E a \in {1000}, b \in {0, 1500} :
        /\ \/ resp' = [op |-> "calculate_roi", args |-> <<a, b>>,
                       result |-> calculate_roi(a, b)]
           \/ resp' = [op |-> "calculate_profit_margin", args |-> <<b, a>>,
                       result |-> calculate_profit_margin(b, a)]
           \/ resp' = [op |-> "calculate_budget_utilization", args |-> <<b, a>>,
                       result |-> calculate_budget_utilization(b, a)]
        /\ UNCHANGED <<store, transient>>

FrameFinance ==
    \/ \E months \in {1, 6} : analyze_financial_trends(months, Today, FALSE)
    \/ \E n \in {0, MaxProjected} :
          generate_financial_projections(n, Today, FALSE)
    \/ get_top_performing_sponsors(1, FALSE)
    \/ \E sponsor_id \in {1, 2} : calculate_sponsor_roi(sponsor_id, FALSE)

FrameAnalytics ==
    \E role \in {"finance", "viewer"}, fault \in BOOLEAN :
        /\ fault => role = "finance"
        /\ \/ overview(role, fault)
           \/ trends(role, TodayNoon, fault)
           \/ roi(role, fault)
           \/ dashboard(role, fault)

FrameReports ==
    \/ \E format_type \in {"summary", "detailed", "roi_analysis"} :
          generate_sponsor_report(format_type, None, FALSE)
    \/ \E format_type \in {"summary", "detailed", "financial"} :
          generate_event_report(format_type, None, FALSE)
    \/ \E fault \in BOOLEAN : generate_financial_summary(12, TodayNoon, fault)
    \/ generate_roi_analysis(FALSE)
    \/ generate_monthly_report(2026, 1, FALSE)
    \/ get_event_financial_summary(1, FALSE)
    \/ reports("finance", TodayNoon, FALSE)

NextFrame ==
    \/ FrameReports
    \/ FrameCalculator
    \/ FrameFinance
    \/ FrameAnalytics

SpecFrame == InitFrame /\ [][NextFrame]_vars

----------------------------------------------------------------------------
(* C23: a call of a FinanceCalculator or ReportGenerator function or of an *)
(* analytics endpoint leaves every member, sponsor, event and sponsorship  *)
(* record and the settings dict as they were.                              *)
ReadOps ==
    {"calculate_roi", "calculate_profit_margin", "calculate_budget_utilization",
     "calculate_sponsor_roi", "get_event_financial_summary",
     "analyze_financial_trends", "generate_financial_projections",
     "get_top_performing_sponsors", "generate_sponsor_report",
     "generate_event_report", "generate_financial_summary",
     "generate_roi_analysis", "generate_monthly_report",
     "overview", "trends", "roi", "reports", "dashboard"}

C23_Step ==
    resp'.op \in ReadOps
        => /\ members' = members
           /\ sponsors' = sponsors
           /\ events' = events
           /\ sponsorships' = sponsorships
           /\ app_settings' = app_settings

C23_ReadsLeaveStore == [][C23_Step]_vars

\* the dashboard was computed over stored events, sponsors, sponsorships
\* and members
C23_Witness ==
    /\ resp.op = "dashboard"
    /\ resp.status = 200
    /\ resp.body.overview.total_users = 1
    /\ events # {} /\ sponsors # {} /\ sponsorships # {} /\ members # {}
====
